---- MODULE Spec2Model ----
(***************************************************************************)
(* Model of the elementary-cellular-automaton engine of rule-22:           *)
(* the React hook useElementaryAutomaton (src/src/useElementaryAutomaton.ts,*)
(* second definition, lines 173-399).                                      *)
(*                                                                         *)
(* The hook's inputs (props) are changed by the component that renders it; *)
(* its state is changed by start/stop/reset, by the callback of the       *)
(* interval timer (a tick) and by the callback of the deferred re-seed     *)
(* timeout.  The two useEffect bodies run after a render has been          *)
(* committed (FlushEffects); timer callbacks that are already due can run  *)
(* between a state change and the effects of the render that shows it.     *)
(***************************************************************************)
EXTENDS Integers, Sequences, FiniteSets, TLC

(* ------------------------------ bounds -------------------------------- *)
\* widest ring, largest seed count and largest generations bound passed in
MaxItems == 3
MaxOnes == 1
MaxGenerations == 2
\* ticks are followed up to this generation: one past the smallest bound
MaxTicks == MaxGenerations

(* ------------------------- input alphabets ---------------------------- *)
\* ruleDecimal as passed in: in range, below and above the range
RuleInputs == {-1, 110}
TotalItemsInputs == {1, MaxItems}
InitialOnesInputs == {0, MaxOnes}
\* seedIndices as passed in: absent/empty, in order, out of order,
\* with a duplicate and an out-of-range index
SeedInputs == {<<>>, <<2, 1, 2, 5>>}
GenerationsInputs == {1, MaxGenerations}
DelayInputs == {10, 20}
\* boundaryValue is never passed by the hook's only caller (Rule22), so the
\* option keeps its default
boundaryValue == 0

VARIABLES
    \* props of the latest render
    ruleDecimal, totalItems, initialOnes, seedIndices, seedRef,
    generations, delay,
    \* useState value
    blocks, generation, isRunning, onesHistory, blocksHistory,
    \* refs
    didMount, prevConfigKey,
    \* dependency arrays of the last run of each effect (<<>>: never run)
    seedEffectDeps, tickEffectDeps,
    \* pending setTimeout of the re-seed effect, live setInterval
    reseedTimer, interval,
    \* the last call the hook's user made: "mount", "start", "stop",
    \* "reset" or "props" (a re-render with changed props)
    lastCall,
    \* calls of the pure functions (urlState, starredConfigs): the last call
    \* made, its arguments, the text it produced or was given, and the value
    \* it returned
    codecOp, codecArgs, codecText, codecValue,
    \* Rule22 page: window.location.search, and the search the page was
    \* loaded with
    url, loadedSearch,
    \* didAutoStartRef, autorunOnChange, pendingAutoStartRef
    didAutoStart, autorunOnChange, pendingAutoStart,
    \* dependency arrays of the last run of the URL sync effect and of the
    \* pending auto-start effect (<<>>: never run), its live setTimeout
    syncEffectDeps, pendingEffectDeps, startTimer,
    \* "none" (no page), "load" (nothing has been done on the page since it
    \* was loaded) or "user" (a handler has been called)
    pageEvent,
    \* the number of rule and control changes made on the page
    changes,
    \* starred store: the list persisted under STORAGE_KEY, each hook
    \* instance's items, whether its save effect is due, the storage events
    \* not yet delivered to it, Date.now(), and the configurations each
    \* instance has toggled
    storage, items, saveDue, storageEvents, now, toggled

props == <<ruleDecimal, totalItems, initialOnes, seedIndices, seedRef,
           generations, delay>>
state == <<blocks, generation, isRunning, onesHistory, blocksHistory>>
refs == <<didMount, prevConfigKey>>
effects == <<seedEffectDeps, tickEffectDeps>>
timers == <<reseedTimer, interval>>
engine == <<props, state, refs, effects, timers, lastCall>>
codec == <<codecOp, codecArgs, codecText, codecValue>>
page == <<url, loadedSearch, didAutoStart, autorunOnChange, pendingAutoStart,
          syncEffectDeps, pendingEffectDeps, startTimer, pageEvent, changes>>
stars == <<storage, items, saveDue, storageEvents, now, toggled>>
vars == <<engine, codec, page, stars>>

\* no call of a pure function has been made
CodecAtRest ==
    /\ codecOp = "none"
    /\ codecArgs = <<>>
    /\ codecText = <<>>
    /\ codecValue = <<>>

\* no page has been loaded
PageAtRest ==
    /\ url = <<>>
    /\ loadedSearch = <<>>
    /\ didAutoStart = FALSE
    /\ autorunOnChange = TRUE
    /\ pendingAutoStart = FALSE
    /\ syncEffectDeps = <<>>
    /\ pendingEffectDeps = <<>>
    /\ startTimer = <<>>
    /\ pageEvent = "none"
    /\ changes = 0

\* no starred store has been mounted
StarsAtRest ==
    /\ storage = <<>>
    /\ items = <<>>
    /\ saveDue = <<>>
    /\ storageEvents = <<>>
    /\ now = 0
    /\ toggled = <<>>

(* ------------------------- pure functions ----------------------------- *)
Min(a, b) == IF a < b THEN a ELSE b
Max(a, b) == IF a > b THEN a ELSE b

\* JS arrays are 0-based: element i of array a
At(a, i) == a[i + 1]

\* clampRuleDecimal (inputs of the model are finite integers)
clampRuleDecimal(r) == Max(0, Min(255, r))

\* (x >> k) & 1 for x >= 0
Bit(x, k) == (x \div (2 ^ k)) % 2

\* applyElementaryRule that lets a live cell survive whatever the rule says
applyElementaryRule_KeepsLive(r, left, current, right) ==
    Max(current, Bit(r, left * 4 + current * 2 + right))

\* applyElementaryRule: idx = (left << 2) | (current << 1) | right
applyElementaryRule(r, left, current, right) ==
    Bit(r, left * 4 + current * 2 + right)

RECURSIVE SumSeq(_)
SumSeq(s) ==
    IF Len(s) = 0 THEN 0
    ELSE IF Len(s) = 1 THEN s[1]
    ELSE LET h == Len(s) \div 2
         IN  SumSeq(SubSeq(s, 1, h)) + SumSeq(SubSeq(s, h + 1, Len(s)))

\* countOnes: values.reduce((acc, b) => acc + b, 0)
countOnes(values) == SumSeq(values)

\* the next row with the neighbours beyond the ends taken as boundaryValue
\* instead of wrapping around
nextBlocksOf_NoWrap(r, bv, prev) ==
    LET n == Len(prev)
    IN  [k \in 1..n |->
            applyElementaryRule(r,
                IF k - 1 > 0 THEN At(prev, (k - 1) - 1) ELSE bv,
                At(prev, k - 1),
                IF k - 1 < n - 1 THEN At(prev, (k - 1) + 1) ELSE bv)]

\* body of the setState updater of the interval callback: the next row,
\* Array.from({ length: prev.blocks.length }, (_, i) => ...), i = k - 1
nextBlocksOf(r, bv, prev) ==
    LET n == Len(prev)
    IN  [k \in 1..n |->
            IF n = 0 THEN bv
            ELSE applyElementaryRule(r,
                     At(prev, ((k - 1) - 1 + n) % n),
                     At(prev, k - 1),
                     At(prev, ((k - 1) + 1) % n))]

\* the Set built from seedIndices: in-range indices, duplicates merged
SeedSet(n, seeds) ==
    {seeds[k] : k \in {j \in 1..Len(seeds) : seeds[j] >= 0 /\ seeds[j] < n}}

\* makeInitialValues that draws each of its n indices on its own, so that
\* two draws can fall on one cell
makeInitialValues_WithRepeats(total, ones, bv, seeds) ==
    LET n == Max(0, Min(total, ones))
        values == [k \in 1..total |-> bv]
        Mark(S) == [k \in 1..total |-> IF (k - 1) \in S THEN 1 ELSE values[k]]
    IN  IF total = 0 THEN {values}
        ELSE IF Len(seeds) > 0 THEN {Mark(SeedSet(total, seeds))}
        ELSE IF n = 0 THEN {values}
        ELSE {Mark(S) : S \in {T \in SUBSET (0..(total - 1)) :
                                  Cardinality(T) >= 1 /\ Cardinality(T) <= n}}

\* makeInitialValues that places the ones of an explicit seed list on cells
\* drawn at random
makeInitialValues_ScattersSeeds(total, ones, bv, seeds) ==
    LET n == IF Len(seeds) > 0 THEN Cardinality(SeedSet(total, seeds))
             ELSE Max(0, Min(total, ones))
        values == [k \in 1..total |-> bv]
        Mark(S) == [k \in 1..total |-> IF (k - 1) \in S THEN 1 ELSE values[k]]
    IN  IF total = 0 THEN {values}
        ELSE IF n = 0 THEN {values}
        ELSE {Mark(S) : S \in {T \in SUBSET (0..(total - 1)) : Cardinality(T) = n}}

\* makeInitialValues: every row the function can return.  The Fisher-Yates
\* shuffle can produce every permutation of the indices, so the first n
\* shuffled indices range over every n-element subset of 0..totalItems-1.
makeInitialValues(total, ones, bv, seeds) ==
    LET n == Max(0, Min(total, ones))
        values == [k \in 1..total |-> bv]
        Mark(S) == [k \in 1..total |-> IF (k - 1) \in S THEN 1 ELSE values[k]]
    IN  IF total = 0 THEN {values}
        ELSE IF Len(seeds) > 0 THEN {Mark(SeedSet(total, seeds))}
        ELSE IF n = 0 THEN {values}
        ELSE {Mark(S) : S \in {T \in SUBSET (0..(total - 1)) : Cardinality(T) = n}}

\* a.slice(0, end)
Slice0(a, end) == SubSeq(a, 1, Min(end, Len(a)))

\* a[i] = v on a JS array (holes filled with `hole` when i > a.length)
ArraySet(a, i, v, hole) ==
    IF i < Len(a) THEN [a EXCEPT ![i + 1] = v]
    ELSE a \o [k \in 1..(i - Len(a)) |-> hole] \o <<v>>

\* `${totalItems}|${initialOnes}|${boundaryValue}|${seedKey}`
ConfigKey(total, ones, bv, seeds) == <<total, ones, bv, seeds>>

(* ------------------------------ Init ---------------------------------- *)
Init ==
    /\ ruleDecimal \in RuleInputs
    /\ totalItems \in TotalItemsInputs
    /\ initialOnes \in InitialOnesInputs
    /\ seedIndices \in SeedInputs
    /\ seedRef = 0
    /\ generations \in GenerationsInputs
    /\ delay \in DelayInputs
    /\ blocks \in makeInitialValues(totalItems, initialOnes, boundaryValue, seedIndices)
    /\ generation = 0
    /\ isRunning = FALSE
    /\ onesHistory = <<countOnes(blocks)>>
    /\ blocksHistory = <<[generation |-> 0, blocks |-> blocks]>>
    /\ didMount = FALSE
    /\ prevConfigKey = <<>>
    /\ seedEffectDeps = <<>>
    /\ tickEffectDeps = <<>>
    /\ reseedTimer = <<>>
    /\ interval = <<>>
    /\ lastCall = "mount"
    /\ CodecAtRest
    /\ PageAtRest
    /\ StarsAtRest

\* a seeding that counts the ones of the row it replaces
Seeded_StaleOnes(row, running) ==
    /\ blocks' = row
    /\ generation' = 0
    /\ isRunning' = running
    /\ onesHistory' = <<countOnes(blocks)>>
    /\ blocksHistory' = <<[generation |-> 0, blocks |-> row]>>

(* ------------------------- state updates ------------------------------ *)
\* the object passed to setState by the initializer, the re-seed timeout,
\* start and reset
Seeded(row, running) ==
    /\ blocks' = row
    /\ generation' = 0
    /\ isRunning' = running
    /\ onesHistory' = <<countOnes(row)>>
    /\ blocksHistory' = <<[generation |-> 0, blocks |-> row]>>

\* start() that keeps the current row instead of seeding a fresh one
Start_KeepsRow ==
    /\ isRunning' = TRUE
    /\ generation' = 0
    /\ onesHistory' = <<countOnes(blocks)>>
    /\ blocksHistory' = <<[generation |-> 0, blocks |-> blocks]>>
    /\ UNCHANGED blocks
    /\ lastCall' = "start"
    /\ UNCHANGED <<props, refs, effects, timers>>

\* start(): seeds from the props of the render that created the callback
Start ==
    /\ \E row \in makeInitialValues(totalItems, initialOnes, boundaryValue, seedIndices) :
           Seeded(row, TRUE)
    /\ lastCall' = "start"
    /\ UNCHANGED <<props, refs, effects, timers>>

\* stop() that also rewinds the generation pointer
Stop_Rewinds ==
    /\ isRunning' = FALSE
    /\ generation' = 0
    /\ lastCall' = "stop"
    /\ UNCHANGED <<blocks, onesHistory, blocksHistory>>
    /\ UNCHANGED <<props, refs, effects, timers>>

\* stop() written as a toggle of the running flag
Stop_Flips ==
    /\ isRunning' = ~isRunning
    /\ UNCHANGED <<blocks, generation, onesHistory, blocksHistory>>
    /\ lastCall' = "stop"
    /\ UNCHANGED <<props, refs, effects, timers>>

\* stop(): setState(prev => ({ ...prev, isRunning: false }))
Stop ==
    /\ isRunning' = FALSE
    /\ UNCHANGED <<blocks, generation, onesHistory, blocksHistory>>
    /\ lastCall' = "stop"
    /\ UNCHANGED <<props, refs, effects, timers>>

\* reset() that re-seeds but leaves the running flag as it is
Reset_KeepsRunning ==
    /\ \E row \in makeInitialValues(totalItems, initialOnes, boundaryValue, seedIndices) :
           Seeded(row, isRunning)
    /\ lastCall' = "reset"
    /\ UNCHANGED <<props, refs, effects, timers>>

\* reset()
Reset ==
    /\ \E row \in makeInitialValues(totalItems, initialOnes, boundaryValue, seedIndices) :
           Seeded(row, FALSE)
    /\ lastCall' = "reset"
    /\ UNCHANGED <<props, refs, effects, timers>>

\* callback of setInterval: the updater applied to the latest state, with
\* rule, generations and boundaryValue as captured when the timer was made
Tick ==
    /\ interval # <<>>
    /\ generation < MaxTicks
    /\ LET iv == interval[1]
           nextBlocks == nextBlocksOf(iv.rule, iv.boundaryValue, blocks)
           nextGeneration == generation + 1
           nextHistory == ArraySet(Slice0(onesHistory, generation + 1),
                                   nextGeneration, countOnes(nextBlocks), -1)
           nextBlocksHistory ==
               ArraySet(Slice0(blocksHistory, generation + 1), nextGeneration,
                        [generation |-> nextGeneration, blocks |-> nextBlocks],
                        [generation |-> -1, blocks |-> <<>>])
       IN  /\ blocks' = nextBlocks
           /\ generation' = nextGeneration
           /\ isRunning' = IF nextGeneration >= iv.generations THEN FALSE ELSE isRunning
           /\ onesHistory' = nextHistory
           /\ blocksHistory' = nextBlocksHistory
    /\ UNCHANGED <<props, refs, effects, timers, lastCall>>

\* callback of the re-seed effect's setTimeout(..., 0): seeds from the props
\* captured by the effect run that scheduled it
ReseedTimeout ==
    /\ reseedTimer # <<>>
    /\ LET c == reseedTimer[1]
       IN  \E row \in makeInitialValues(c.totalItems, c.initialOnes,
                                        c.boundaryValue, c.seedIndices) :
               Seeded(row, FALSE)
    /\ reseedTimer' = <<>>
    /\ UNCHANGED <<props, refs, effects, interval, lastCall>>

(* ------------------------------ effects ------------------------------- *)
\* [totalItems, initialOnes, boundaryValue, seedIndices]; the array is
\* compared by identity (seedRef)
SeedDeps == <<totalItems, initialOnes, boundaryValue, seedRef>>

\* [delay, generations, state.isRunning, rule, boundaryValue]
TickDeps == <<delay, generations, isRunning, clampRuleDecimal(ruleDecimal), boundaryValue>>

EffectsPending == seedEffectDeps # SeedDeps \/ tickEffectDeps # TickDeps

\* the re-seed effect without the comparison of configuration keys: every
\* run after the mount schedules a re-seed
SeedEffect_AlwaysReseeds ==
    IF seedEffectDeps = SeedDeps
    THEN UNCHANGED <<refs, reseedTimer>>
    ELSE IF ~didMount
    THEN /\ didMount' = TRUE
         /\ prevConfigKey' = <<ConfigKey(totalItems, initialOnes, boundaryValue, seedIndices)>>
         /\ reseedTimer' = <<>>
    ELSE /\ prevConfigKey' = <<ConfigKey(totalItems, initialOnes, boundaryValue, seedIndices)>>
         /\ reseedTimer' = <<[totalItems |-> totalItems,
                              initialOnes |-> initialOnes,
                              boundaryValue |-> boundaryValue,
                              seedIndices |-> seedIndices]>>
         /\ UNCHANGED didMount

\* the re-seed effect: cleanup of the previous run (clearTimeout), then the body
SeedEffect ==
    LET nextKey == <<ConfigKey(totalItems, initialOnes, boundaryValue, seedIndices)>>
    IN  IF seedEffectDeps = SeedDeps
        THEN UNCHANGED <<refs, reseedTimer>>
        ELSE IF ~didMount
        THEN /\ didMount' = TRUE
             /\ prevConfigKey' = nextKey
             /\ reseedTimer' = <<>>
        ELSE IF prevConfigKey = nextKey
        THEN /\ reseedTimer' = <<>>
             /\ UNCHANGED refs
        ELSE /\ prevConfigKey' = nextKey
             /\ reseedTimer' = <<[totalItems |-> totalItems,
                                  initialOnes |-> initialOnes,
                                  boundaryValue |-> boundaryValue,
                                  seedIndices |-> seedIndices]>>
             /\ UNCHANGED didMount

\* the tick effect: cleanup of the previous run (clearInterval), then the body
TickEffect ==
    IF tickEffectDeps = TickDeps
    THEN UNCHANGED interval
    ELSE IF ~isRunning
    THEN interval' = <<>>
    ELSE interval' = <<[rule |-> clampRuleDecimal(ruleDecimal),
                        generations |-> generations,
                        boundaryValue |-> boundaryValue,
                        delay |-> delay]>>

\* the passive effects of the committed render, in declaration order
FlushEffects ==
    /\ EffectsPending
    /\ SeedEffect
    /\ TickEffect
    /\ seedEffectDeps' = SeedDeps
    /\ tickEffectDeps' = TickDeps
    /\ UNCHANGED <<props, state, lastCall>>

(* ------------------- re-renders with changed props -------------------- *)
\* React runs the effects of a committed render before it renders again
SetRuleDecimal ==
    /\ ~EffectsPending
    /\ lastCall' = "props"
    /\ \E r \in RuleInputs \ {ruleDecimal} : ruleDecimal' = r
    /\ UNCHANGED <<totalItems, initialOnes, seedIndices, seedRef, generations,
                   delay, state, refs, effects, timers>>

SetTotalItems ==
    /\ ~EffectsPending
    /\ lastCall' = "props"
    /\ \E n \in TotalItemsInputs \ {totalItems} : totalItems' = n
    /\ UNCHANGED <<ruleDecimal, initialOnes, seedIndices, seedRef, generations,
                   delay, state, refs, effects, timers>>

SetInitialOnes ==
    /\ ~EffectsPending
    /\ lastCall' = "props"
    /\ \E n \in InitialOnesInputs \ {initialOnes} : initialOnes' = n
    /\ UNCHANGED <<ruleDecimal, totalItems, seedIndices, seedRef, generations,
                   delay, state, refs, effects, timers>>

\* a new seedIndices array with other contents
SetSeedIndices ==
    /\ ~EffectsPending
    /\ lastCall' = "props"
    /\ \E s \in SeedInputs \ {seedIndices} : seedIndices' = s
    /\ seedRef' = 1 - seedRef
    /\ UNCHANGED <<ruleDecimal, totalItems, initialOnes, generations,
                   delay, state, refs, effects, timers>>

\* a new seedIndices array with the same contents (the caller rebuilds the
\* array whenever it recomputes its configuration)
RenewSeedArray ==
    /\ ~EffectsPending
    /\ lastCall' = "props"
    /\ seedRef' = 1 - seedRef
    /\ UNCHANGED <<ruleDecimal, totalItems, initialOnes, seedIndices, generations,
                   delay, state, refs, effects, timers>>

SetGenerations ==
    /\ ~EffectsPending
    /\ lastCall' = "props"
    /\ \E g \in GenerationsInputs \ {generations} : generations' = g
    /\ UNCHANGED <<ruleDecimal, totalItems, initialOnes, seedIndices, seedRef,
                   delay, state, refs, effects, timers>>

SetDelay ==
    /\ ~EffectsPending
    /\ lastCall' = "props"
    /\ \E d \in DelayInputs \ {delay} : delay' = d
    /\ UNCHANGED <<ruleDecimal, totalItems, initialOnes, seedIndices, seedRef,
                   generations, state, refs, effects, timers>>

Next ==
    \/ Start /\ UNCHANGED <<codec, page, stars>>
    \/ Stop /\ UNCHANGED <<codec, page, stars>>
    \/ Reset /\ UNCHANGED <<codec, page, stars>>
    \/ Tick /\ UNCHANGED <<codec, page, stars>>
    \/ ReseedTimeout /\ UNCHANGED <<codec, page, stars>>
    \/ FlushEffects /\ UNCHANGED <<codec, page, stars>>
    \/ SetRuleDecimal /\ UNCHANGED <<codec, page, stars>>
    \/ SetTotalItems /\ UNCHANGED <<codec, page, stars>>
    \/ SetInitialOnes /\ UNCHANGED <<codec, page, stars>>
    \/ SetSeedIndices /\ UNCHANGED <<codec, page, stars>>
    \/ RenewSeedArray /\ UNCHANGED <<codec, page, stars>>
    \/ SetGenerations /\ UNCHANGED <<codec, page, stars>>
    \/ SetDelay /\ UNCHANGED <<codec, page, stars>>

Spec == Init /\ [][Next]_vars

(* ====================================================================== *)
(*   URL codec (urlState): encodeSeedBitset, decodeSeedBitset,            *)
(*   buildShareableSearch, parseShareableStateFromLocation                *)
(* ====================================================================== *)
\* A string is the sequence of its characters.  A JavaScript number is a
\* record: a finite value is held in halves (h = 2 * value, so that 1.5 is
\* h = 3), NaN and the two infinities have their own kinds.
Num(n) == [k |-> "num", h |-> 2 * n]
Half(n) == [k |-> "num", h |-> 2 * n + 1]
NaN == [k |-> "NaN", h |-> 0]
Infinity == [k |-> "inf", h |-> 1]
NegInfinity == [k |-> "inf", h |-> -1]

isFinite(x) == x.k = "num"
floor(x) == x.h \div 2

\* clampInt without the lower bound
clampInt_NoLowerBound(value, min, max) ==
    LET v == IF isFinite(value) THEN floor(value) ELSE min
    IN  Min(max, v)

\* clampInt of urlState; the result is an integer
clampInt(value, min, max) ==
    LET v == IF isFinite(value) THEN floor(value) ELSE min
    IN  Max(min, Min(max, v))

Digits == <<"0", "1", "2", "3", "4", "5", "6", "7", "8", "9">>
DigitValue(c) == (CHOOSE i \in 1..10 : Digits[i] = c) - 1
IsDigit(c) == \E i \in 1..10 : Digits[i] = c

\* String(n) of an integer n
RECURSIVE NatToString(_)
NatToString(n) ==
    IF n < 10 THEN <<Digits[n + 1]>>
    ELSE NatToString(n \div 10) \o <<Digits[(n % 10) + 1]>>
String(n) == IF n < 0 THEN <<"-">> \o NatToString(0 - n) ELSE NatToString(n)

\* value of a non-empty run of decimal digits
RECURSIVE DigitsToNat(_)
DigitsToNat(s) ==
    IF Len(s) = 0 THEN 0
    ELSE 10 * DigitsToNat(SubSeq(s, 1, Len(s) - 1)) + DigitValue(s[Len(s)])

AllDigits(s) == Len(s) > 0 /\ \A i \in 1..Len(s) : IsDigit(s[i])

\* Number(raw) for the texts of this model: the empty string is 0, an
\* optionally signed decimal integer is its value, one followed by ".5" is
\* that value and a half, "Infinity" is infinite, any other text is NaN
Number(raw) ==
    LET neg == Len(raw) > 0 /\ raw[1] = "-"
        body == IF neg THEN Tail(raw) ELSE raw
        frac == Len(body) > 2 /\ SubSeq(body, Len(body) - 1, Len(body)) = <<".", "5">>
        int == IF frac THEN SubSeq(body, 1, Len(body) - 2) ELSE body
    IN  IF raw = <<>> THEN Num(0)
        ELSE IF raw = <<"I", "n", "f", "i", "n", "i", "t", "y">> THEN Infinity
        ELSE IF ~AllDigits(int) THEN NaN
        ELSE IF neg
        THEN [k |-> "num", h |-> 0 - (2 * DigitsToNat(int) + (IF frac THEN 1 ELSE 0))]
        ELSE [k |-> "num", h |-> 2 * DigitsToNat(int) + (IF frac THEN 1 ELSE 0)]

\* s.replaceAll(from, to) for single characters; to = <<>> deletes
replaceAll(s, from, to) ==
    LET RECURSIVE go(_)
        go(i) == IF i > Len(s) THEN <<>>
                 ELSE (IF s[i] = from THEN to ELSE <<s[i]>>) \o go(i + 1)
    IN  go(1)

(* ------------------------------ base64 -------------------------------- *)
B64Alphabet ==
    <<"A", "B", "C", "D", "E", "F", "G", "H", "I", "J", "K", "L", "M",
      "N", "O", "P", "Q", "R", "S", "T", "U", "V", "W", "X", "Y", "Z",
      "a", "b", "c", "d", "e", "f", "g", "h", "i", "j", "k", "l", "m",
      "n", "o", "p", "q", "r", "s", "t", "u", "v", "w", "x", "y", "z",
      "0", "1", "2", "3", "4", "5", "6", "7", "8", "9", "+", "/">>
B64Char(v) == B64Alphabet[v + 1]
IsB64Char(c) == \E i \in 1..64 : B64Alphabet[i] = c
B64Value(c) == (CHOOSE i \in 1..64 : B64Alphabet[i] = c) - 1

\* btoa of a byte string: three bytes make four characters, the last group
\* is padded with "="
RECURSIVE btoa(_)
btoa(bytes) ==
    IF Len(bytes) = 0 THEN <<>>
    ELSE IF Len(bytes) = 1
    THEN <<B64Char(bytes[1] \div 4), B64Char((bytes[1] % 4) * 16), "=", "=">>
    ELSE IF Len(bytes) = 2
    THEN <<B64Char(bytes[1] \div 4),
           B64Char((bytes[1] % 4) * 16 + bytes[2] \div 16),
           B64Char((bytes[2] % 16) * 4), "=">>
    ELSE <<B64Char(bytes[1] \div 4),
           B64Char((bytes[1] % 4) * 16 + bytes[2] \div 16),
           B64Char((bytes[2] % 16) * 4 + bytes[3] \div 64),
           B64Char(bytes[3] % 64)>> \o btoa(SubSeq(bytes, 4, Len(bytes)))

\* the bytes of a run of alphabet characters whose length is not 1 mod 4;
\* the bits left over in a last group of two or three characters are dropped
RECURSIVE B64Bytes(_)
B64Bytes(s) ==
    IF Len(s) < 2 THEN <<>>
    ELSE LET a == B64Value(s[1])
             b == B64Value(s[2])
         IN  IF Len(s) = 2 THEN <<a * 4 + b \div 16>>
             ELSE LET c == B64Value(s[3])
                  IN  IF Len(s) = 3
                      THEN <<a * 4 + b \div 16, (b % 16) * 16 + c \div 4>>
                      ELSE <<a * 4 + b \div 16, (b % 16) * 16 + c \div 4,
                             (c % 4) * 64 + B64Value(s[4])>>
                           \o B64Bytes(SubSeq(s, 5, Len(s)))

\* atob (forgiving base64 decode): white space is removed; of a text whose
\* length is a multiple of four one or two final "=" are removed; a length of
\* 1 mod 4 or any character outside the alphabet is an error (<<>>);
\* otherwise <<bytes>>
atob(data) ==
    LET noSpace == replaceAll(data, " ", <<>>)
        n == Len(noSpace)
        cut == IF n % 4 = 0 /\ n > 0 /\ noSpace[n] = "="
               THEN (IF noSpace[n - 1] = "=" THEN 2 ELSE 1)
               ELSE 0
        body == SubSeq(noSpace, 1, n - cut)
    IN  IF Len(body) % 4 = 1 THEN <<>>
        ELSE IF \E i \in 1..Len(body) : ~IsB64Char(body[i]) THEN <<>>
        ELSE <<B64Bytes(body)>>

\* base64UrlEncode that leaves the "=" padding of btoa in place
base64UrlEncode_KeepsPadding(bytes) ==
    replaceAll(replaceAll(btoa(bytes), "+", <<"-">>), "/", <<"_">>)

\* base64UrlEncode: URL-safe alphabet, no padding
base64UrlEncode(bytes) ==
    replaceAll(replaceAll(replaceAll(btoa(bytes), "+", <<"-">>), "/", <<"_">>), "=", <<>>)

\* base64UrlDecode: <<>> when atob throws, <<bytes>> otherwise
base64UrlDecode(s) ==
    LET b64 == replaceAll(replaceAll(s, "-", <<"+">>), "_", <<"/">>)
        padLen == (4 - (Len(b64) % 4)) % 4
        padded == b64 \o [i \in 1..padLen |-> "="]
    IN  atob(padded)

(* --------------------------- seed bitset ------------------------------ *)
\* the elements of a finite set of integers in ascending order
SortedSeq(S) ==
    IF S = {} THEN <<>>
    ELSE LET lo == CHOOSE x \in S : \A y \in S : x <= y
             hi == CHOOSE x \in S : \A y \in S : x >= y
             InS(x) == x \in S
         IN  SelectSeq([k \in 1..(hi - lo + 1) |-> lo + k - 1], InS)

\* uniqSortedIndices: the finite entries, floored, that fall in
\* [0, totalItems), without duplicates, ascending
uniqSortedIndices(indices, total) ==
    SortedSeq({floor(indices[j]) : j \in {i \in 1..Len(indices) :
                  /\ isFinite(indices[i])
                  /\ floor(indices[i]) >= 0
                  /\ floor(indices[i]) < total}})

\* b | mask for a mask of one bit
BitOr(b, mask) == IF (b \div mask) % 2 = 1 THEN b ELSE b + mask

\* bytes[idx >> 3] |= 1 << (7 - idx % 8) for the indices of one byte
RECURSIVE OrSeedBits(_, _)
OrSeedBits(byte, indices) ==
    IF indices = <<>> THEN byte
    ELSE OrSeedBits(BitOr(byte, 2 ^ (7 - (Head(indices) % 8))), Tail(indices))

\* the loop of encodeSeedBitset, taken a byte at a time
SetSeedBits(bytes, indices) ==
    [b \in 1..Len(bytes) |->
        LET InByte(idx) == idx \div 8 = b - 1
        IN  OrSeedBits(bytes[b], SelectSeq(indices, InByte))]

encodeSeedBitset(total, seeds) ==
    LET safeTotal == clampInt(total, 1, 300)
        indices == uniqSortedIndices(seeds, safeTotal)
        byteLen == (safeTotal + 7) \div 8
    IN  base64UrlEncode(SetSeedBits([i \in 1..byteLen |-> 0], indices))

\* the loop of decodeSeedBitset read least significant bit first
RECURSIVE SeedBitsFrom_LsbFirst(_, _, _)
SeedBitsFrom_LsbFirst(bytes, idx, safeTotal) ==
    IF idx >= safeTotal THEN <<>>
    ELSE LET byteIndex == idx \div 8
             b == IF byteIndex + 1 <= Len(bytes) THEN bytes[byteIndex + 1] ELSE 0
             last == Min(safeTotal - 1, 8 * byteIndex + 7)
             IsSet(i) == (b \div (2 ^ (i % 8))) % 2 = 1
         IN  SelectSeq([k \in 1..(last - idx + 1) |-> idx + k - 1], IsSet)
             \o SeedBitsFrom_LsbFirst(bytes, last + 1, safeTotal)

\* the loop of decodeSeedBitset from index idx on, taken a byte at a time:
\* idx is pushed when bit 7 - idx % 8 of byte idx >> 3 is set, a byte past
\* the end of the payload reading as 0
RECURSIVE SeedBitsFrom(_, _, _)
SeedBitsFrom(bytes, idx, safeTotal) ==
    IF idx >= safeTotal THEN <<>>
    ELSE LET byteIndex == idx \div 8
             b == IF byteIndex + 1 <= Len(bytes) THEN bytes[byteIndex + 1] ELSE 0
             last == Min(safeTotal - 1, 8 * byteIndex + 7)
             IsSet(i) == (b \div (2 ^ (7 - (i % 8)))) % 2 = 1
         IN  SelectSeq([k \in 1..(last - idx + 1) |-> idx + k - 1], IsSet)
             \o SeedBitsFrom(bytes, last + 1, safeTotal)

\* decodeSeedBitset that rejects a payload with fewer bytes than the width
\* needs
decodeSeedBitset_ShortIsNull(total, encoded) ==
    LET safeTotal == clampInt(total, 1, 300)
        bytes == base64UrlDecode(encoded)
    IN  IF bytes = <<>> THEN <<>>
        ELSE IF Len(bytes[1]) < (safeTotal + 7) \div 8 THEN <<>>
        ELSE <<SeedBitsFrom(bytes[1], 0, safeTotal)>>

\* <<>> (null) when the payload does not decode, <<indices>> otherwise
decodeSeedBitset(total, encoded) ==
    LET safeTotal == clampInt(total, 1, 300)
        bytes == base64UrlDecode(encoded)
    IN  IF bytes = <<>> THEN <<>>
        ELSE <<SeedBitsFrom(bytes[1], 0, safeTotal)>>

(* ------------------------- URLSearchParams ---------------------------- *)
\* position of the first c in s, 0 when there is none
IndexOf(s, c) ==
    IF \E i \in 1..Len(s) : s[i] = c
    THEN CHOOSE i \in 1..Len(s) : s[i] = c /\ \A j \in 1..(i - 1) : s[j] # c
    ELSE 0

RECURSIVE Split(_, _)
Split(s, c) ==
    LET i == IndexOf(s, c)
    IN  IF i = 0 THEN <<s>>
        ELSE <<SubSeq(s, 1, i - 1)>> \o Split(SubSeq(s, i + 1, Len(s)), c)

\* new URLSearchParams(search): the name/value pairs of the query in order;
\* a leading "?" is dropped and "+" stands for a space
URLSearchParams(search) ==
    LET query == IF Len(search) > 0 /\ search[1] = "?" THEN Tail(search) ELSE search
        NonEmpty(p) == Len(p) > 0
        parts == SelectSeq(Split(query, "&"), NonEmpty)
        Pair(p) ==
            LET i == IndexOf(p, "=")
                name == IF i = 0 THEN p ELSE SubSeq(p, 1, i - 1)
                value == IF i = 0 THEN <<>> ELSE SubSeq(p, i + 1, Len(p))
            IN  [name |-> replaceAll(name, "+", <<" ">>),
                 value |-> replaceAll(value, "+", <<" ">>)]
    IN  [j \in 1..Len(parts) |-> Pair(parts[j])]

paramsHas(params, key) == \E j \in 1..Len(params) : params[j].name = key

\* params.get(key): <<>> (null) or <<value of the first pair named key>>
paramsGet(params, key) ==
    IF paramsHas(params, key)
    THEN <<params[CHOOSE j \in 1..Len(params) :
                     /\ params[j].name = key
                     /\ \A i \in 1..(j - 1) : params[i].name # key].value>>
    ELSE <<>>

\* params.set(key, value) on pairs that do not yet hold key: appended
paramsSet(params, key, value) == Append(params, [name |-> key, value |-> value])

\* params.toString(); the names and values written by this program consist
\* of characters that are not percent-encoded
RECURSIVE paramsToString(_)
paramsToString(params) ==
    IF Len(params) = 0 THEN <<>>
    ELSE params[1].name \o <<"=">> \o params[1].value
         \o (IF Len(params) > 1 THEN <<"&">> \o paramsToString(Tail(params)) ELSE <<>>)

(* ---------------------- shareable configuration ----------------------- *)
\* parseIntParam: the fallback when the parameter is absent or is not a
\* finite number, its floor otherwise
parseIntParam(params, key, fallback) ==
    LET raw == paramsGet(params, key)
    IN  IF raw = <<>> THEN Num(fallback)
        ELSE IF isFinite(Number(raw[1])) THEN Num(floor(Number(raw[1])))
        ELSE Num(fallback)

\* parseShareableStateFromLocation that leaves an empty seed list out of
\* the result
parseShareableStateFromLocation_DropsEmptySeed(search) ==
    LET params == URLSearchParams(search)
        rd == clampInt(parseIntParam(params, <<"r">>, 22), 0, 255)
        ti == clampInt(parseIntParam(params, <<"w">>, 118), 1, 300)
        gs == clampInt(parseIntParam(params, <<"g">>, 100), 1, 500)
        dl == clampInt(parseIntParam(params, <<"d">>, 10), 10, 5000)
        seedEncoded == paramsGet(params, <<"s">>)
        decoded == IF seedEncoded # <<>>
                   THEN decodeSeedBitset(Num(ti), seedEncoded[1])
                   ELSE <<>>
    IN  [ruleDecimal |-> rd, totalItems |-> ti, generations |-> gs, delay |-> dl,
         seedIndices |-> IF decoded = <<<<>>>> THEN <<>> ELSE decoded]

\* the result's seedIndices is <<>> when the property is absent and
\* <<indices>> when it is present
parseShareableStateFromLocation(search) ==
    LET params == URLSearchParams(search)
        rd == clampInt(parseIntParam(params, <<"r">>, 22), 0, 255)
        ti == clampInt(parseIntParam(params, <<"w">>, 118), 1, 300)
        gs == clampInt(parseIntParam(params, <<"g">>, 100), 1, 500)
        dl == clampInt(parseIntParam(params, <<"d">>, 10), 10, 5000)
        seedEncoded == paramsGet(params, <<"s">>)
    IN  [ruleDecimal |-> rd, totalItems |-> ti, generations |-> gs, delay |-> dl,
         seedIndices |-> IF seedEncoded # <<>>
                         THEN decodeSeedBitset(Num(ti), seedEncoded[1])
                         ELSE <<>>]

\* buildShareableSearch that writes the floored rule without clamping it
buildShareableSearch_RawRule(c) ==
    LET p1 == paramsSet(<<>>, <<"r">>, String(IF isFinite(c.ruleDecimal) THEN floor(c.ruleDecimal) ELSE 0))
        p2 == paramsSet(p1, <<"w">>, String(clampInt(c.totalItems, 1, 300)))
        p3 == paramsSet(p2, <<"g">>, String(clampInt(c.generations, 1, 500)))
        p4 == paramsSet(p3, <<"d">>, String(clampInt(c.delay, 10, 5000)))
        p5 == paramsSet(p4, <<"s">>, encodeSeedBitset(c.totalItems, c.seedIndices))
        s == paramsToString(p5)
    IN  IF Len(s) > 0 THEN <<"?">> \o s ELSE <<>>

\* buildShareableSearch that leaves the delay out of the text
buildShareableSearch_NoDelay(c) ==
    LET p1 == paramsSet(<<>>, <<"r">>, String(clampInt(c.ruleDecimal, 0, 255)))
        p2 == paramsSet(p1, <<"w">>, String(clampInt(c.totalItems, 1, 300)))
        p3 == paramsSet(p2, <<"g">>, String(clampInt(c.generations, 1, 500)))
        p5 == paramsSet(p3, <<"s">>, encodeSeedBitset(c.totalItems, c.seedIndices))
        s == paramsToString(p5)
    IN  IF Len(s) > 0 THEN <<"?">> \o s ELSE <<>>

buildShareableSearch(c) ==
    LET p1 == paramsSet(<<>>, <<"r">>, String(clampInt(c.ruleDecimal, 0, 255)))
        p2 == paramsSet(p1, <<"w">>, String(clampInt(c.totalItems, 1, 300)))
        p3 == paramsSet(p2, <<"g">>, String(clampInt(c.generations, 1, 500)))
        p4 == paramsSet(p3, <<"d">>, String(clampInt(c.delay, 10, 5000)))
        p5 == paramsSet(p4, <<"s">>, encodeSeedBitset(c.totalItems, c.seedIndices))
        s == paramsToString(p5)
    IN  IF Len(s) > 0 THEN <<"?">> \o s ELSE <<>>

(* ----------------------- calls of the URL codec ----------------------- *)
\* The codec functions keep no state: every call is made from the state in
\* which no call has been made, and a decode or parse may follow the encode
\* or build whose text it reads.
\* longest seedIndices list passed to the codec
MaxSeedLen == 2

\* numbers passed as totalItems: below, inside and above [1, 300], around a
\* byte boundary, fractional and not finite
CodecTotals == {Num(0), Num(1), Num(8), Num(9), Half(16), Num(300), Num(301), NaN, Infinity}
\* numbers passed as seed indices
CodecIndices == {Num(-1), Num(0), Num(7), Num(8), Half(8), Num(299), NaN}
\* lists that fill five and six leading bits of the first byte, which makes
\* the first character of the text one of the two URL-safe ones
CodecDenseSeeds == {[k \in 1..n |-> Num(k - 1)] : n \in {5, 6}}
CodecSeedLists == UNION {[1..n -> CodecIndices] : n \in 0..MaxSeedLen} \cup CodecDenseSeeds
CodecRules == {Num(-1), Num(22), Num(999), Half(110), NaN, Infinity}
CodecGenerations == {Num(0), Num(100), Num(99999), Infinity}
CodecDelays == {Num(1), Half(10), Num(5001), NegInfinity}
\* configurations passed to buildShareableSearch; their seed lists hold a
\* negative index and one that is out of range for the narrow widths
CodecConfigSeeds == UNION {[1..n -> {Num(-1), Num(0), Num(8), Num(299)}] : n \in 0..MaxSeedLen}
CodecConfigs ==
    [ruleDecimal : CodecRules, totalItems : {Num(0), Num(9), Num(300), Num(301), Infinity},
     generations : CodecGenerations, delay : CodecDelays,
     seedIndices : CodecConfigSeeds]

\* payloads given to decodeSeedBitset: empty; one byte; more bytes than the
\* width needs; the URL-safe characters; padded by the sender; with the
\* characters of plain base64; a length of 1 mod 4; a character outside the
\* alphabet; "=" inside; white space; left-over bits set
CodecPayloads ==
    {<<>>, <<"g", "A">>, <<"_", "w">>, <<"g", "Q", "C", "A", "g", "A">>,
     <<"-", "_", "8">>, <<"g", "A", "=", "=">>, <<"+", "/", "8", "=">>,
     <<"A">>, <<"g", "A", "A", "A", "A">>, <<"g", "!", "A">>,
     <<"g", "=", "A">>, <<"g", " ", "A">>, <<"g", "A", " ", "A">>, <<"g", "B">>}

\* values of a query parameter: absent (<<>>) or <<text>>
CodecRawNumbers ==
    {<<>>, <<<<>>>>, <<<<"7">>>>, <<<<"9", "9", "9", "9", "9">>>>, <<<<"-", "5">>>>,
     <<<<"1", "2", ".", "5">>>>, <<<<"a", "b", "c">>>>,
     <<<<"I", "n", "f", "i", "n", "i", "t", "y">>>>}
CodecRawSeeds == {<<>>, <<<<>>>>, <<<<"g", "A">>>>, <<<<"A">>>>, <<<<"g", "!", "A">>>>}

\* the query string with the given parameters, absent ones left out
SearchOf(r, w, g, d, s) ==
    LET One(key, raw) == IF raw = <<>> THEN <<>> ELSE <<[name |-> key, value |-> raw[1]]>>
        text == paramsToString(One(<<"r">>, r) \o One(<<"w">>, w) \o One(<<"g">>, g)
                               \o One(<<"d">>, d) \o One(<<"s">>, s))
    IN  IF Len(text) > 0 THEN <<"?">> \o text ELSE <<>>

CodecSearches ==
    {SearchOf(r, w, g, d, s) :
        r \in {<<>>, <<<<>>>>, <<<<"7">>>>, <<<<"a", "b", "c">>>>},
        w \in CodecRawNumbers,
        g \in {<<>>, <<<<"1", "2", ".", "5">>>>},
        d \in {<<>>, <<<<"-", "5">>>>, <<<<"I", "n", "f", "i", "n", "i", "t", "y">>>>},
        s \in CodecRawSeeds}

\* the engine as it is mounted by default and never used
EngineAtRest ==
    /\ ruleDecimal = 110
    /\ totalItems = 1
    /\ initialOnes = 0
    /\ seedIndices = <<>>
    /\ seedRef = 0
    /\ generations = 1
    /\ delay = 10
    /\ blocks = <<0>>
    /\ generation = 0
    /\ isRunning = FALSE
    /\ onesHistory = <<0>>
    /\ blocksHistory = <<[generation |-> 0, blocks |-> <<0>>]>>
    /\ didMount = FALSE
    /\ prevConfigKey = <<>>
    /\ seedEffectDeps = <<>>
    /\ tickEffectDeps = <<>>
    /\ reseedTimer = <<>>
    /\ interval = <<>>
    /\ lastCall = "mount"

CodecInit == EngineAtRest /\ CodecAtRest /\ PageAtRest /\ StarsAtRest

EncodeSeedBitset ==
    /\ codecOp = "none"
    /\ \E t \in CodecTotals, S \in CodecSeedLists :
        /\ codecOp' = "encodeSeedBitset"
        /\ codecArgs' = [totalItems |-> t, seedIndices |-> S]
        /\ codecText' = encodeSeedBitset(t, S)
        /\ codecValue' = <<>>

\* decodeSeedBitset of the text just encoded, for the same totalItems
DecodeEncoded ==
    /\ codecOp = "encodeSeedBitset"
    /\ codecOp' = "decodeEncoded"
    /\ codecValue' = decodeSeedBitset(codecArgs.totalItems, codecText)
    /\ UNCHANGED <<codecArgs, codecText>>

DecodeSeedBitset ==
    /\ codecOp = "none"
    /\ \E t \in CodecTotals, payload \in CodecPayloads :
        /\ codecOp' = "decodeSeedBitset"
        /\ codecArgs' = [totalItems |-> t]
        /\ codecText' = payload
        /\ codecValue' = decodeSeedBitset(t, payload)

BuildShareableSearch ==
    /\ codecOp = "none"
    /\ \E c \in CodecConfigs :
        /\ codecOp' = "buildShareableSearch"
        /\ codecArgs' = c
        /\ codecText' = buildShareableSearch(c)
        /\ codecValue' = <<>>

\* parseShareableStateFromLocation of the search just built
ParseBuilt ==
    /\ codecOp = "buildShareableSearch"
    /\ codecOp' = "parseBuilt"
    /\ codecValue' = <<parseShareableStateFromLocation(codecText)>>
    /\ UNCHANGED <<codecArgs, codecText>>

ParseShareableStateFromLocation ==
    /\ codecOp = "none"
    /\ \E search \in CodecSearches :
        /\ codecOp' = "parseShareableStateFromLocation"
        /\ codecArgs' = <<>>
        /\ codecText' = search
        /\ codecValue' = <<parseShareableStateFromLocation(search)>>

CodecNext ==
    \/ EncodeSeedBitset /\ UNCHANGED <<engine, page, stars>>
    \/ DecodeEncoded /\ UNCHANGED <<engine, page, stars>>
    \/ DecodeSeedBitset /\ UNCHANGED <<engine, page, stars>>
    \/ BuildShareableSearch /\ UNCHANGED <<engine, page, stars>>
    \/ ParseBuilt /\ UNCHANGED <<engine, page, stars>>
    \/ ParseShareableStateFromLocation /\ UNCHANGED <<engine, page, stars>>

SpecCodec == CodecInit /\ [][CodecNext]_vars

(* ====================================================================== *)
(*                             Rule22 page                                *)
(* ====================================================================== *)
\* The page renders <Rule22 /> without props.  The applied configuration is
\* what the page hands to useElementaryAutomaton, so the engine's props are
\* the applied configuration; the draft and the configuration behind it are
\* normalised by every handler and carry the same values.

\* normalizeSeedIndices for whole-number indices
normalizeSeedIndices(total, seeds) == SortedSeq(SeedSet(total, seeds))

\* defaultSeedCount
defaultSeedCount(total) == Max(0, Min(total, total \div 2))

\* randomSeedIndices: of the lists the shuffle can return, the one with the
\* lowest and the one with the highest indices are followed
randomSeedIndices(total, count) ==
    LET n == Max(0, Min(total, count))
    IN  {[k \in 1..n |-> k - 1], [k \in 1..n |-> total - n + k - 1]}

\* the number of rule and control changes followed
MaxChanges == 1

\* what the user can enter
PageRules == {22}
RandomRules == {110}
PageTotals == {3}
PageGenerations == {2}
PageDelays == {20}
PageSeedCounts == {1}

\* the searches the page is loaded with: none, a configuration without its
\* rule and delay, and a parameter the page does not know
LoadSearches ==
    {<<>>,
     <<"?", "w", "=", "3", "&", "g", "=", "2", "&", "s", "=", "g", "A">>,
     <<"?", "x", "=", "1">>}

\* ["r", "w", "g", "d", "s"].some((k) => params.has(k))
hasConfig(search) ==
    \E k \in {<<"r">>, <<"w">>, <<"g">>, <<"d">>, <<"s">>} :
        paramsHas(URLSearchParams(search), k)

\* the applied configuration with the given rule, as syncUrlNow receives it
AppliedWith(nextRule) ==
    [ruleDecimal |-> Num(nextRule),
     totalItems |-> Num(totalItems),
     generations |-> Num(generations),
     delay |-> Num(delay),
     seedIndices |-> [k \in 1..Len(seedIndices) |-> Num(seedIndices[k])]]

applied == AppliedWith(ruleDecimal)

\* syncUrlNow: the search that history.replaceState leaves in the location
syncUrlNow(next) == buildShareableSearch(next)

\* [applied, syncUrlNow]: the memoised object is rebuilt when a field of
\* the configuration changes, and with it the seed array (seedRef)
SyncDeps == <<ruleDecimal, totalItems, initialOnes, seedRef, generations, delay>>

\* [appliedKey, start]
PendingDeps == <<ruleDecimal, totalItems, generations, delay, seedIndices,
                 initialOnes, boundaryValue, seedRef>>

PagePending ==
    \/ EffectsPending
    \/ syncEffectDeps # SyncDeps
    \/ pendingEffectDeps # PendingDeps
    \/ ~didAutoStart

\* the state after construction: both useState initialisers have run
PageInit ==
    /\ loadedSearch \in LoadSearches
    /\ url = loadedSearch
    /\ LET fromUrl == parseShareableStateFromLocation(loadedSearch)
           safeTotal == clampInt(Num(fromUrl.totalItems), 1, 300)
       IN  /\ ruleDecimal = clampInt(Num(fromUrl.ruleDecimal), 0, 255)
           /\ totalItems = safeTotal
           /\ seedIndices \in
                 IF fromUrl.seedIndices # <<>> /\ Len(fromUrl.seedIndices[1]) > 0
                 THEN {normalizeSeedIndices(safeTotal, fromUrl.seedIndices[1])}
                 ELSE randomSeedIndices(safeTotal, defaultSeedCount(safeTotal))
           /\ generations = clampInt(Num(fromUrl.generations), 1, 500)
           /\ delay = clampInt(Num(fromUrl.delay), 10, 5000)
    /\ initialOnes = Len(seedIndices)
    /\ seedRef = 0
    /\ blocks \in makeInitialValues(totalItems, initialOnes, boundaryValue, seedIndices)
    /\ generation = 0
    /\ isRunning = FALSE
    /\ onesHistory = <<countOnes(blocks)>>
    /\ blocksHistory = <<[generation |-> 0, blocks |-> blocks]>>
    /\ didMount = FALSE
    /\ prevConfigKey = <<>>
    /\ seedEffectDeps = <<>>
    /\ tickEffectDeps = <<>>
    /\ reseedTimer = <<>>
    /\ interval = <<>>
    /\ lastCall = "mount"
    /\ didAutoStart = FALSE
    /\ autorunOnChange = TRUE
    /\ pendingAutoStart = FALSE
    /\ syncEffectDeps = <<>>
    /\ pendingEffectDeps = <<>>
    /\ startTimer = <<>>
    /\ pageEvent = "load"
    /\ changes = 0
    /\ CodecAtRest
    /\ StarsAtRest

\* the passive effects of one commit, in the order of their declaration:
\* the engine's re-seed and tick effects, the URL sync effect, the auto-start
\* effect and the pending auto-start effect
PageFlushEffects ==
    /\ PagePending
    /\ SeedEffect
    /\ TickEffect
    /\ seedEffectDeps' = SeedDeps
    /\ tickEffectDeps' = TickDeps
    /\ LET synced == IF syncEffectDeps # SyncDeps THEN syncUrlNow(applied) ELSE url
       IN  /\ url' = synced
           /\ syncEffectDeps' = SyncDeps
           /\ didAutoStart' = TRUE
           /\ IF ~didAutoStart /\ hasConfig(synced)
              THEN /\ \E row \in makeInitialValues(totalItems, initialOnes,
                                                   boundaryValue, seedIndices) :
                          Seeded(row, TRUE)
                   /\ lastCall' = "start"
              ELSE UNCHANGED <<state, lastCall>>
    /\ IF pendingEffectDeps = PendingDeps
       THEN UNCHANGED <<pendingAutoStart, startTimer>>
       ELSE /\ pendingAutoStart' = FALSE
            /\ startTimer' = IF pendingAutoStart
                             THEN <<[totalItems |-> totalItems,
                                     initialOnes |-> initialOnes,
                                     boundaryValue |-> boundaryValue,
                                     seedIndices |-> seedIndices,
                                     after |-> reseedTimer',
                                     change |-> changes]>>
                             ELSE <<>>
    /\ pendingEffectDeps' = PendingDeps
    /\ UNCHANGED <<props, loadedSearch, autorunOnChange, pageEvent, changes>>

\* the start timeout taken without regard to the timers set before it
StartTimeout_Unordered ==
    /\ startTimer # <<>>
    /\ LET c == startTimer[1]
       IN  \E row \in makeInitialValues(c.totalItems, c.initialOnes,
                                        c.boundaryValue, c.seedIndices) :
               Seeded(row, TRUE)
    /\ startTimer' = <<>>
    /\ lastCall' = "start"
    /\ pageEvent' = IF startTimer[1].change = changes THEN "autostart" ELSE pageEvent
    /\ UNCHANGED <<props, refs, effects, timers, url, loadedSearch, didAutoStart,
                   autorunOnChange, pendingAutoStart, syncEffectDeps,
                   pendingEffectDeps, changes>>

\* callback of window.setTimeout(() => start(), 0): start as the render
\* that scheduled it made it.  Timeouts of equal delay run in the order in
\* which they were set: the re-seed timeout that was pending when this one
\* was set (after), if it has not been cleared, runs first.  pageEvent
\* records the auto-start when no change was made since the timer was set.
StartTimeout ==
    /\ startTimer # <<>>
    /\ startTimer[1].after = <<>> \/ reseedTimer # startTimer[1].after
    /\ LET c == startTimer[1]
       IN  \E row \in makeInitialValues(c.totalItems, c.initialOnes,
                                        c.boundaryValue, c.seedIndices) :
               Seeded(row, TRUE)
    /\ startTimer' = <<>>
    /\ lastCall' = "start"
    /\ pageEvent' = IF startTimer[1].change = changes THEN "autostart" ELSE pageEvent
    /\ UNCHANGED <<props, refs, effects, timers, url, loadedSearch, didAutoStart,
                   autorunOnChange, pendingAutoStart, syncEffectDeps,
                   pendingEffectDeps, changes>>

\* onToggleRun = isRunning ? stop : start
onToggleRun ==
    /\ IF isRunning THEN Stop ELSE Start
    /\ pageEvent' = "user"
    /\ UNCHANGED <<url, loadedSearch, didAutoStart, autorunOnChange,
                   pendingAutoStart, syncEffectDeps, pendingEffectDeps, startTimer,
                   changes>>

\* the rule handlers: setDraft, setConfig, stop(), reset(), the pending
\* flag, syncUrlNow with the next rule
ChangeRule(nextRule) ==
    /\ ruleDecimal' = nextRule
    /\ seedRef' = IF nextRule = ruleDecimal THEN seedRef ELSE 1 - seedRef
    /\ \E row \in makeInitialValues(totalItems, initialOnes, boundaryValue, seedIndices) :
           Seeded(row, FALSE)
    /\ pendingAutoStart' = autorunOnChange
    /\ url' = syncUrlNow(AppliedWith(nextRule))
    /\ lastCall' = "props"
    /\ UNCHANGED <<totalItems, initialOnes, seedIndices, generations, delay,
                   refs, effects, timers, loadedSearch, didAutoStart,
                   autorunOnChange, syncEffectDeps, pendingEffectDeps, startTimer>>

onChangeRule ==
    /\ ~PagePending
    /\ changes < MaxChanges
    /\ changes' = changes + 1
    /\ \E nextRule \in PageRules : ChangeRule(nextRule)
    /\ pageEvent' = "user"

\* nextRule = Math.floor(Math.random() * 256)
onRandomRule ==
    /\ ~PagePending
    /\ changes < MaxChanges
    /\ changes' = changes + 1
    /\ \E nextRule \in RandomRules : ChangeRule(nextRule)
    /\ pageEvent' = "user"

\* applyControlsPatch that leaves the engine's state as it is
applyControlsPatch_NoReset(total, seeds, gens, dl) ==
    /\ UNCHANGED state
    /\ totalItems' = total
    /\ seedIndices' = normalizeSeedIndices(total, seeds)
    /\ initialOnes' = Max(0, Min(total, Len(normalizeSeedIndices(total, seeds))))
    /\ generations' = gens
    /\ delay' = dl
    /\ seedRef' = 1 - seedRef
    /\ pendingAutoStart' = autorunOnChange
    /\ lastCall' = "props"
    /\ UNCHANGED <<ruleDecimal, refs, effects, timers, url, loadedSearch,
                   didAutoStart, autorunOnChange, syncEffectDeps,
                   pendingEffectDeps, startTimer>>

\* applyControlsPatch: stop(), reset() with the props of this render, then
\* setDraft and setConfig with applyControlPatch of the merged values; the
\* normalised seed list is a new array
applyControlsPatch(total, seeds, gens, dl) ==
    /\ \E row \in makeInitialValues(totalItems, initialOnes, boundaryValue, seedIndices) :
           Seeded(row, FALSE)
    /\ totalItems' = total
    /\ seedIndices' = normalizeSeedIndices(total, seeds)
    /\ initialOnes' = Max(0, Min(total, Len(normalizeSeedIndices(total, seeds))))
    /\ generations' = gens
    /\ delay' = dl
    /\ seedRef' = 1 - seedRef
    /\ pendingAutoStart' = autorunOnChange
    /\ lastCall' = "props"
    /\ UNCHANGED <<ruleDecimal, refs, effects, timers, url, loadedSearch,
                   didAutoStart, autorunOnChange, syncEffectDeps,
                   pendingEffectDeps, startTimer>>

\* Cells: the patch holds totalItems alone, so the seeds are drawn afresh
onChangeCells ==
    /\ ~PagePending
    /\ changes < MaxChanges
    /\ changes' = changes + 1
    /\ \E total \in PageTotals :
         \E seeds \in randomSeedIndices(total, defaultSeedCount(total)) :
             applyControlsPatch(total, seeds, generations, delay)
    /\ pageEvent' = "user"

onChangeGenerations ==
    /\ ~PagePending
    /\ changes < MaxChanges
    /\ changes' = changes + 1
    /\ \E gens \in PageGenerations :
           applyControlsPatch(totalItems, seedIndices, gens, delay)
    /\ pageEvent' = "user"

onChangeSeedCount ==
    /\ ~PagePending
    /\ changes < MaxChanges
    /\ changes' = changes + 1
    /\ \E count \in PageSeedCounts :
         \E seeds \in randomSeedIndices(totalItems, count) :
             applyControlsPatch(totalItems, seeds, generations, delay)
    /\ pageEvent' = "user"

onChangeDelay ==
    /\ ~PagePending
    /\ changes < MaxChanges
    /\ changes' = changes + 1
    /\ \E dl \in PageDelays :
           applyControlsPatch(totalItems, seedIndices, generations, dl)
    /\ pageEvent' = "user"

onRandomizeSeeds ==
    /\ ~PagePending
    /\ changes < MaxChanges
    /\ changes' = changes + 1
    /\ \E seeds \in randomSeedIndices(totalItems, initialOnes) :
           applyControlsPatch(totalItems, seeds, generations, delay)
    /\ pageEvent' = "user"

\* the checkbox "autorun on change", clicked like every control on the
\* committed page
onToggleAutorunOnChange ==
    /\ ~PagePending
    /\ autorunOnChange' = ~autorunOnChange
    /\ pageEvent' = "user"
    /\ UNCHANGED <<engine, url, loadedSearch, didAutoStart, pendingAutoStart,
                   syncEffectDeps, pendingEffectDeps, startTimer, changes>>

PageNext ==
    \/ PageFlushEffects /\ UNCHANGED <<codec, stars>>
    \/ StartTimeout /\ UNCHANGED <<codec, stars>>
    \/ Tick /\ UNCHANGED <<codec, page, stars>>
    \/ ReseedTimeout /\ UNCHANGED <<codec, page, stars>>
    \/ onToggleRun /\ UNCHANGED <<codec, stars>>
    \/ onChangeRule /\ UNCHANGED <<codec, stars>>
    \/ onRandomRule /\ UNCHANGED <<codec, stars>>
    \/ onChangeCells /\ UNCHANGED <<codec, stars>>
    \/ onChangeGenerations /\ UNCHANGED <<codec, stars>>
    \/ onChangeSeedCount /\ UNCHANGED <<codec, stars>>
    \/ onChangeDelay /\ UNCHANGED <<codec, stars>>
    \/ onRandomizeSeeds /\ UNCHANGED <<codec, stars>>
    \/ onToggleAutorunOnChange /\ UNCHANGED <<codec, stars>>

SpecPage == PageInit /\ [][PageNext]_vars

(* ====================================================================== *)
(*                      Starred-configuration store                       *)
(* ====================================================================== *)
\* An entry is [id, search, ruleDecimal, createdAt]; a list of entries is a
\* sequence.  The persisted value is the list that JSON.parse gives back.

MAX_ITEMS == 50
STORAGE_KEY == "rule22.starredConfigs.v1"

\* normalizeSearch
normalizeSearch(search) ==
    IF Len(search) = 0 THEN <<>>
    ELSE IF search[1] = "?" THEN search
    ELSE <<"?">> \o search

\* makeStarredFromState
makeStarredFromState(st, t) ==
    LET search == buildShareableSearch(st)
    IN  [id |-> search, search |-> search, ruleDecimal |-> st.ruleDecimal,
         createdAt |-> t]

\* sort((a, b) => b.createdAt - a.createdAt): descending, entries with equal
\* createdAt keep their order (Array.prototype.sort is stable)
sortNewestFirst(list) ==
    LET n == Len(list)
        rank == [i \in 1..n |->
                    Cardinality({j \in 1..n :
                        \/ list[j].createdAt > list[i].createdAt
                        \/ list[j].createdAt = list[i].createdAt /\ j < i}) + 1]
                \o <<>>
        from == [p \in 1..n |-> CHOOSE i \in 1..n : rank[i] = p] \o <<>>
    IN  [p \in 1..n |-> list[from[p]]]

\* loadStarredConfigs of the persisted list: search and id normalised, an
\* entry without id or with an id seen before dropped, newest first, capped
loadStarredConfigs(raw) ==
    LET n == Len(raw)
        idOf(i) == normalizeSearch(raw[i].search)
        Keep(i) == Len(idOf(i)) > 0 /\ \A j \in 1..(i - 1) : idOf(j) # idOf(i)
        kept == SelectSeq([i \in 1..n |-> i], Keep)
        out == [k \in 1..Len(kept) |->
                   [raw[kept[k]] EXCEPT !.search = idOf(kept[k]), !.id = idOf(kept[k])]]
    IN  Slice0(sortNewestFirst(out), MAX_ITEMS)

\* what saveStarredConfigs(list) leaves under STORAGE_KEY
saveStarredConfigs(list) ==
    LET HasId(i) == Len(i.id) > 0
    IN  Slice0(SelectSeq(list, HasId), MAX_ITEMS)

isConfigStarred(list, search) ==
    \E i \in 1..Len(list) : list[i].id = normalizeSearch(search)

\* addConfigStar that puts the new entry behind the others before sorting
addConfigStar_Appends(list, starred) ==
    LET id == normalizeSearch(starred.id)
        Other(i) == i.id # id
        without == SelectSeq(list, Other)
        next == without
                \o <<[starred EXCEPT !.id = id,
                                     !.search = normalizeSearch(starred.search)]>>
    IN  IF Len(id) = 0 THEN list
        ELSE Slice0(sortNewestFirst(next), MAX_ITEMS)

\* addConfigStar that leaves an entry with the same id on the list
addConfigStar_KeepsExisting(list, starred) ==
    LET id == normalizeSearch(starred.id)
        next == <<[starred EXCEPT !.id = id,
                                  !.search = normalizeSearch(starred.search)]>>
                \o list
    IN  IF Len(id) = 0 THEN list
        ELSE Slice0(sortNewestFirst(next), MAX_ITEMS)

addConfigStar(list, starred) ==
    LET id == normalizeSearch(starred.id)
        Other(i) == i.id # id
        without == SelectSeq(list, Other)
        next == <<[starred EXCEPT !.id = id,
                                  !.search = normalizeSearch(starred.search)]>>
                \o without
    IN  IF Len(id) = 0 THEN list
        ELSE Slice0(sortNewestFirst(next), MAX_ITEMS)

\* removeConfigStar that drops the newest entry whatever its id
removeConfigStar_DropsNewest(list, search) ==
    IF Len(list) = 0 THEN list ELSE Tail(list)

removeConfigStar(list, search) ==
    LET id == normalizeSearch(search)
        Other(i) == i.id # id
    IN  SelectSeq(list, Other)

\* toggleConfigStar that never removes
toggleConfigStar_AlwaysAdds(list, st, t) ==
    addConfigStar(list, makeStarredFromState(st, t))

toggleConfigStar(list, st, t) ==
    LET starred == makeStarredFromState(st, t)
    IN  IF isConfigStarred(list, starred.search)
        THEN removeConfigStar(list, starred.search)
        ELSE addConfigStar(list, starred)

(* ------------------- two instances of useStarredConfigs --------------- *)
\* Two views of the page share localStorage.  Both are mounted and their
\* mount effects have run; time is counted in toggles.
Instances == {"A", "B"}

\* the number of toggles followed
MaxToggles == 2

\* the configuration of the given rule on a ring of one cell
StarState(r) ==
    [ruleDecimal |-> Num(r), totalItems |-> Num(1), generations |-> Num(1),
     delay |-> Num(10), seedIndices |-> <<>>]

\* the configurations the views show
StarStates == {StarState(22), StarState(110)}

\* what is persisted when the views are mounted: nothing, or one entry
StoredLists == {<<>>, <<makeStarredFromState(StarState(30), 0)>>}

StarsInit ==
    /\ EngineAtRest
    /\ CodecAtRest
    /\ PageAtRest
    /\ storage \in StoredLists
    /\ items = [i \in Instances |-> loadStarredConfigs(storage)]
    /\ saveDue = [i \in Instances |-> FALSE]
    /\ storageEvents = [i \in Instances |-> <<>>]
    /\ now = 1
    /\ toggled = <<>>

\* nothing is left to run: no save effect is due, no storage event is queued
Settled ==
    \A i \in Instances : ~saveDue[i] /\ storageEvents[i] = <<>>

\* toggleCurrent of view i showing st; the log keeps the view, the id and
\* whether view i had by then taken in every write of the other views (none
\* of them has a save due, no storage event waits for view i)
toggleCurrent ==
    /\ Len(toggled) < MaxToggles
    /\ \E i \in Instances, st \in StarStates :
        /\ items' = [items EXCEPT ![i] = toggleConfigStar(items[i], st, now)]
        /\ saveDue' = [saveDue EXCEPT ![i] = TRUE]
        /\ toggled' = Append(toggled, [view |-> i,
                                       id |-> buildShareableSearch(st),
                                       reloaded |->
                                           /\ storageEvents[i] = <<>>
                                           /\ \A j \in Instances \ {i} : ~saveDue[j]])
    /\ now' = now + 1
    /\ UNCHANGED <<storage, storageEvents>>

\* the save effect of view i; a setItem that changes the value queues a
\* storage event, which carries the key, for every other view
SaveEffect ==
    \E i \in Instances :
        /\ saveDue[i]
        /\ storage' = saveStarredConfigs(items[i])
        /\ saveDue' = [saveDue EXCEPT ![i] = FALSE]
        /\ storageEvents' =
              [j \in Instances |->
                  IF j # i /\ saveStarredConfigs(items[i]) # storage
                  THEN Append(storageEvents[j], STORAGE_KEY)
                  ELSE storageEvents[j]]
        /\ UNCHANGED <<items, now, toggled>>

\* onStorage in view i, for the oldest queued event: an event of another
\* key is dropped, one of STORAGE_KEY gives setItems(loadStarredConfigs())
onStorage ==
    \E i \in Instances :
        /\ storageEvents[i] # <<>>
        /\ storageEvents' = [storageEvents EXCEPT ![i] = Tail(@)]
        /\ IF Head(storageEvents[i]) # STORAGE_KEY
           THEN UNCHANGED <<items, saveDue>>
           ELSE /\ items' = [items EXCEPT ![i] = loadStarredConfigs(storage)]
                /\ saveDue' = [saveDue EXCEPT ![i] = TRUE]
        /\ UNCHANGED <<storage, now, toggled>>

StarsNext ==
    \/ toggleCurrent /\ UNCHANGED <<engine, codec, page>>
    \/ SaveEffect /\ UNCHANGED <<engine, codec, page>>
    \/ onStorage /\ UNCHANGED <<engine, codec, page>>

SpecStars == StarsInit /\ [][StarsNext]_vars

(* ----------------------- calls of toggleConfigStar -------------------- *)
\* toggleConfigStar keeps no state either: a call is made from the state in
\* which no call has been made, and a second toggle of the same
\* configuration may follow on the list the first one returned.

\* the entry of the k-th other configuration (rules 200 to 249)
OtherStar(k, t) == makeStarredFromState(StarState(199 + k), t)

\* lists of the store, newest first: of n other configurations with falling
\* or with equal timestamps, and one that holds the configuration of rule 22
ToggleLengths == {0, 1, 2, MAX_ITEMS - 1, MAX_ITEMS}
ToggleLists ==
    {[k \in 1..n |-> OtherStar(k, 10 + n - k)] : n \in ToggleLengths}
    \cup {[k \in 1..n |-> OtherStar(k, 10)] : n \in ToggleLengths}
    \cup {<<OtherStar(1, 12), makeStarredFromState(StarState(22), 10)>>}

\* Date.now() at the first toggle: older than every entry, just older than
\* the oldest, as old as the oldest, newer than every entry
ToggleTimes == {5, 9, 10, 100}

ToggleInit == EngineAtRest /\ CodecAtRest /\ PageAtRest /\ StarsAtRest

ToggleConfigStar ==
    /\ codecOp = "none"
    /\ \E list \in ToggleLists, st \in StarStates, t \in ToggleTimes :
        /\ codecOp' = "toggleConfigStar"
        /\ codecArgs' = [entries |-> list, state |-> st, now |-> t]
        /\ codecText' = buildShareableSearch(st)
        /\ codecValue' = <<toggleConfigStar(list, st, t)>>

\* the same configuration toggled on the list just returned, a millisecond
\* later
ToggleAgain ==
    /\ codecOp = "toggleConfigStar"
    /\ codecOp' = "toggleAgain"
    /\ codecValue' = <<toggleConfigStar(codecValue[1], codecArgs.state,
                                        codecArgs.now + 1)>>
    /\ UNCHANGED <<codecArgs, codecText>>

\* the lists given to addConfigStar: those above and a full one whose oldest
\* entry is the configuration of rule 22
AddLists ==
    ToggleLists
    \cup {[k \in 1..MAX_ITEMS |->
              IF k = MAX_ITEMS THEN makeStarredFromState(StarState(22), 10)
              ELSE OtherStar(k, 10 + MAX_ITEMS - k)]}

\* addConfigStar(entries, makeStarredFromState(state, now))
AddConfigStar ==
    /\ codecOp = "none"
    /\ \E list \in AddLists, st \in StarStates, t \in ToggleTimes :
        /\ codecOp' = "addConfigStar"
        /\ codecArgs' = [entries |-> list, state |-> st, now |-> t]
        /\ codecText' = buildShareableSearch(st)
        /\ codecValue' = <<addConfigStar(list, makeStarredFromState(st, t))>>

ToggleNext ==
    \/ ToggleConfigStar /\ UNCHANGED <<engine, page, stars>>
    \/ ToggleAgain /\ UNCHANGED <<engine, page, stars>>
    \/ AddConfigStar /\ UNCHANGED <<engine, page, stars>>

SpecToggle == ToggleInit /\ [][ToggleNext]_vars

(* ====================================================================== *)
(*                              Properties                                *)
(* ====================================================================== *)
\* the rule of the current render and the rows of the history
rule == clampRuleDecimal(ruleDecimal)
HistoryRow(k) == blocksHistory[k + 1].blocks

\* bit number b of x, b = 0 the least significant
BitOf(x, b) == (x \div (2 ^ b)) % 2

\* row `new` is one synchronous ring step of row `old` under rule r
IsRingStep(r, old, new) ==
    /\ Len(new) = Len(old)
    /\ \A i \in 0..(Len(old) - 1) :
           LET n == Len(old)
               left == old[((i - 1 + n) % n) + 1]
               current == old[i + 1]
               right == old[((i + 1) % n) + 1]
           IN  new[i + 1] = BitOf(r, 4 * left + 2 * current + right)

\* C1: generation bound.  After start(), with no later call and so with the
\* bound G = generations as it was, the generation pointer never exceeds G,
\* the engine is Running only below G (it went Idle on the tick that reached
\* G), and an engine stopped at G holds exactly G + 1 rows of history.
C1_GenerationBound ==
    lastCall = "start" =>
        /\ generation <= generations
        /\ (isRunning => generation < generations)
        /\ (~isRunning /\ generation = generations =>
               Len(blocksHistory) = generations + 1)

C3_HistoryFollowsCurrentRule ==
    /\ Len(blocksHistory) >= generation + 1
    /\ \A k \in 1..generation :
           IsRingStep(rule, HistoryRow(k - 1), HistoryRow(k))

\* C4: the current row and every row of the history have exactly totalItems
\* cells, totalItems being the input of the render that shows them.
C4_RowsMatchTotalItems ==
    /\ Len(blocks) = totalItems
    /\ \A k \in 1..Len(blocksHistory) : Len(blocksHistory[k].blocks) = totalItems

\* row is a generation-0 row of the configuration: total cells of 0 and 1;
\* with explicit seeds the ones are exactly the listed in-range cells,
\* without them exactly min(total, max(0, ones)) cells are 1
IsSeedRowOf(row, total, ones, seeds) ==
    /\ Len(row) = total
    /\ \A i \in 1..total : row[i] \in {0, 1}
    /\ IF Len(seeds) > 0
       THEN \A i \in 0..(total - 1) :
                row[i + 1] = 1 <=> \E j \in 1..Len(seeds) : seeds[j] = i
       ELSE countOnes(row) = Min(total, Max(0, ones))

\* the state holds exactly one generation, the current row
SingleRowHistory ==
    /\ generation = 0
    /\ Len(blocksHistory) = 1
    /\ blocksHistory[1].blocks = blocks
    /\ blocksHistory[1].generation = 0
    /\ Len(onesHistory) = 1

\* C5: start(), in any state, gives isRunning = true, generation = 0, a
\* history of exactly one row, and that row is a generation-0 seed row of the
\* current configuration (the pinned positions when explicit seeds are given).
C5_StartSeedsAndRuns ==
    [][Start =>
          /\ isRunning'
          /\ SingleRowHistory'
          /\ IsSeedRowOf(blocks', totalItems, initialOnes, seedIndices)
      ]_vars

\* start() has been called with pinned seeds on the widest ring and the tick
\* timer is live
C5_Witness ==
    /\ lastCall = "start"
    /\ isRunning /\ generation = 0
    /\ Len(seedIndices) > 0 /\ totalItems = MaxItems
    /\ interval # <<>>
    /\ blocks = <<0, 1, 1>> \o [k \in 1..(MaxItems - 3) |-> 0]

\* the rules an engine of the model can run with
EngineRules == {clampRuleDecimal(r) : r \in RuleInputs}

\* every stored generation after the first is a whole step of the one before
HistoryRowsComplete ==
    \A k \in 2..Len(blocksHistory) :
        \E r \in EngineRules :
            IsRingStep(r, blocksHistory[k - 1].blocks, blocksHistory[k].blocks)

\* C6: stop() makes the engine Idle and leaves the generation pointer, the
\* current row and the whole history (rows and ones-counts) as they were;
\* every row in the history is a completely computed generation.
C6_StopKeepsHistory ==
    /\ [][Stop =>
            /\ ~isRunning'
            /\ UNCHANGED <<generation, blocks, onesHistory, blocksHistory>>
        ]_vars
    /\ []HistoryRowsComplete

\* stop() has been called in the middle of a run
C6_Witness ==
    /\ lastCall = "stop"
    /\ ~isRunning
    /\ generation >= 1 /\ generation < generations
    /\ Len(blocksHistory) = generation + 1
    /\ interval # <<>>

\* C7: reset(), in any state, gives isRunning = false, generation = 0 and a
\* history of exactly one row that is a generation-0 seed row of the current
\* configuration; with explicit seeds that row is fixed by the configuration,
\* so it is the same on every reset.
C7_ResetSeedsAndIdles ==
    [][Reset =>
          /\ ~isRunning'
          /\ SingleRowHistory'
          /\ IsSeedRowOf(blocks', totalItems, initialOnes, seedIndices)
          /\ (Len(seedIndices) > 0 /\ lastCall = "reset" /\ SingleRowHistory
                /\ IsSeedRowOf(blocks, totalItems, initialOnes, seedIndices)
              => blocks' = blocks)
      ]_vars

\* reset() has been called during a run with pinned seeds, before the
\* interval of that run has been cleared
C7_Witness ==
    /\ lastCall = "reset"
    /\ ~isRunning /\ generation = 0
    /\ Len(seedIndices) > 0
    /\ interval # <<>>

\* no effect is waiting to run and no timer is pending or live
Quiescent == ~EffectsPending /\ reseedTimer = <<>> /\ interval = <<>>

\* C8: after start() with no later call, once everything the call set in
\* motion has run (effects flushed, no timer left), the engine is Idle with
\* the generation pointer at the configured bound.
C8_RunEndsAtBound ==
    (lastCall = "start" /\ Quiescent) => (~isRunning /\ generation = generations)

\* C9: a change of totalItems or of the seed specification is always
\* followed by a re-seed from the latest configuration; once no
\* effect and no re-seed timer is pending that re-seed has happened, so the
\* current row has the latest totalItems cells.
C9_ReseedReachesLatestConfig ==
    (~EffectsPending /\ reseedTimer = <<>>) => Len(blocks) = totalItems

\* C10: a change of delay or of generations alone, the re-seed inputs keeping
\* their values (also when the seed array is a new array with the same
\* contents), leaves the row, the generation pointer and the history as they
\* are and schedules no re-seed, neither at once nor when the effects run.
C10_DelayGenerationsDoNotReseed ==
    [][/\ (SetDelay \/ SetGenerations) => UNCHANGED <<state, reseedTimer>>
       /\ (FlushEffects /\ didMount
             /\ prevConfigKey = <<ConfigKey(totalItems, initialOnes, boundaryValue, seedIndices)>>)
          => (UNCHANGED state /\ reseedTimer' \in {<<>>, reseedTimer})
      ]_vars

\* a re-render has changed only the delay in the middle of a run (the tick
\* effect has not yet run for it, the re-seed effect has nothing to do)
C10_Witness ==
    /\ lastCall = "props"
    /\ generation >= 1 /\ isRunning
    /\ tickEffectDeps # <<>> /\ tickEffectDeps[1] # delay
    /\ tickEffectDeps[2] = generations
    /\ seedEffectDeps = SeedDeps
    /\ reseedTimer = <<>>
    /\ Len(blocksHistory) = generation + 1

(* ---------------------------- URL codec ------------------------------- *)
\* x is a whole number n with lo <= n <= hi
IsIntegerIn(x, lo, hi) == x.k = "num" /\ x.h % 2 = 0 /\ x.h \div 2 >= lo /\ x.h \div 2 <= hi

\* seq is strictly ascending
StrictlyAscending(seq) == \A i \in 1..(Len(seq) - 1) : seq[i] < seq[i + 1]

\* C11: for totalItems in [1, 300] and a list S of indices in
\* [0, totalItems), in any order and with or without duplicates, decoding the
\* encoded bitset for the same totalItems gives the distinct elements of S in
\* ascending order.
C11_SeedBitsetRoundTrip ==
    (/\ codecOp = "decodeEncoded"
     /\ IsIntegerIn(codecArgs.totalItems, 1, 300)
     /\ \A j \in 1..Len(codecArgs.seedIndices) :
            IsIntegerIn(codecArgs.seedIndices[j], 0, floor(codecArgs.totalItems) - 1))
    => /\ Len(codecValue) = 1
       /\ StrictlyAscending(codecValue[1])
       /\ {codecValue[1][i] : i \in 1..Len(codecValue[1])}
            = {floor(codecArgs.seedIndices[j]) : j \in 1..Len(codecArgs.seedIndices)}

\* the widest ring, its last and first cell given out of order, has been
\* encoded and decoded
C11_Witness ==
    /\ codecOp = "decodeEncoded"
    /\ codecArgs.totalItems = Num(300)
    /\ codecArgs.seedIndices = <<Num(299), Num(0)>>
    /\ codecValue = <<<<0, 299>>>>

\* n brought into [lo, hi]
Within(n, lo, hi) == IF n < lo THEN lo ELSE IF n > hi THEN hi ELSE n

IsWhole(x) == x.k = "num" /\ x.h % 2 = 0

\* C12: for a configuration c of whole numbers, in range or not, parsing the
\* search built from c gives ruleDecimal, totalItems, generations and delay
\* equal to c's values brought into [0,255], [1,300], [1,500], [10,5000], and
\* a seedIndices property, present also when it is the empty list, that
\* holds in ascending order the distinct indices of c.seedIndices that lie in
\* [0, totalItems) for that totalItems.
C12_ShareableRoundTrip ==
    (/\ codecOp = "parseBuilt"
     /\ IsWhole(codecArgs.ruleDecimal) /\ IsWhole(codecArgs.totalItems)
     /\ IsWhole(codecArgs.generations) /\ IsWhole(codecArgs.delay)
     /\ \A j \in 1..Len(codecArgs.seedIndices) : IsWhole(codecArgs.seedIndices[j]))
    => LET c == codecArgs
           parsed == codecValue[1]
           w == Within(c.totalItems.h \div 2, 1, 300)
       IN  /\ parsed.ruleDecimal = Within(c.ruleDecimal.h \div 2, 0, 255)
           /\ parsed.totalItems = w
           /\ parsed.generations = Within(c.generations.h \div 2, 1, 500)
           /\ parsed.delay = Within(c.delay.h \div 2, 10, 5000)
           /\ Len(parsed.seedIndices) = 1
           /\ StrictlyAscending(parsed.seedIndices[1])
           /\ {parsed.seedIndices[1][i] : i \in 1..Len(parsed.seedIndices[1])}
                = {n \in 0..(w - 1) :
                      \E j \in 1..Len(c.seedIndices) : c.seedIndices[j].h = 2 * n}

\* a configuration with rule, generations and delay out of range and with a
\* seed beyond the width has been built and parsed back
C12_Witness ==
    /\ codecOp = "parseBuilt"
    /\ codecArgs.ruleDecimal = Num(999) /\ codecArgs.totalItems = Num(9)
    /\ codecArgs.generations = Num(99999) /\ codecArgs.delay = Num(1)
    /\ codecArgs.seedIndices = <<Num(299), Num(8)>>
    /\ codecValue[1] = [ruleDecimal |-> 255, totalItems |-> 9, generations |-> 500,
                        delay |-> 10, seedIndices |-> <<<<8>>>>]

\* the whole number that the query text holds as the value of parameter
\* key; -1 when the parameter is absent or is not a whole number
Embedded(text, key) ==
    LET raw == paramsGet(URLSearchParams(text), key)
    IN  IF Len(raw) = 1 /\ IsWhole(Number(raw[1])) THEN floor(Number(raw[1])) ELSE -1

\* the values of [lo, hi] that are "the floored input clamped to its bound":
\* +Infinity clamps to hi and -Infinity to lo; NaN has no floor, so that any
\* value of the range is admitted for it
FlooredClamped(x, lo, hi) ==
    IF x.k = "num" THEN {Within(x.h \div 2, lo, hi)}
    ELSE IF x.k = "inf" THEN {IF x.h > 0 THEN hi ELSE lo}
    ELSE lo..hi

\* C13 as stated: for any numeric inputs, also out of range and not finite,
\* the search built embeds r in [0,255], w in [1,300], g in [1,500] and d in
\* [10,5000], each the floored input clamped to its bound, and the s
\* parameter is always there.
C13_BuildEmbedsFlooredClamped ==
    codecOp = "buildShareableSearch" =>
        /\ Embedded(codecText, <<"r">>) \in FlooredClamped(codecArgs.ruleDecimal, 0, 255)
        /\ Embedded(codecText, <<"w">>) \in FlooredClamped(codecArgs.totalItems, 1, 300)
        /\ Embedded(codecText, <<"g">>) \in FlooredClamped(codecArgs.generations, 1, 500)
        /\ Embedded(codecText, <<"d">>) \in FlooredClamped(codecArgs.delay, 10, 5000)
        /\ paramsHas(URLSearchParams(codecText), <<"s">>)

\* the floored input clamped to its bound when the input is finite, the
\* lower bound when it is not
ClampedOrLowerBound(x, lo, hi) ==
    IF x.k = "num" THEN Within(x.h \div 2, lo, hi) ELSE lo

\* C13 as amended: r, w, g and d are embedded within their bounds, each the
\* floored input clamped to its bound when the input is finite and the lower
\* bound when it is not finite (NaN, +Infinity, -Infinity); the s parameter
\* is always there.
C13_BuildEmbedsClampedOrLowerBound ==
    codecOp = "buildShareableSearch" =>
        /\ Embedded(codecText, <<"r">>) = ClampedOrLowerBound(codecArgs.ruleDecimal, 0, 255)
        /\ Embedded(codecText, <<"w">>) = ClampedOrLowerBound(codecArgs.totalItems, 1, 300)
        /\ Embedded(codecText, <<"g">>) = ClampedOrLowerBound(codecArgs.generations, 1, 500)
        /\ Embedded(codecText, <<"d">>) = ClampedOrLowerBound(codecArgs.delay, 10, 5000)
        /\ paramsHas(URLSearchParams(codecText), <<"s">>)

\* a search has been built from an infinite rule and width, a generations
\* count above its range and a delay of -Infinity: ?r=0&w=1&g=500&d=10&s=AA
C13_Witness ==
    /\ codecOp = "buildShareableSearch"
    /\ codecArgs.ruleDecimal = Infinity /\ codecArgs.totalItems = Infinity
    /\ codecArgs.generations = Num(99999) /\ codecArgs.delay = NegInfinity
    /\ codecArgs.seedIndices = <<>>
    /\ codecText = <<"?", "r", "=", "0", "&", "w", "=", "1", "&",
                     "g", "=", "5", "0", "0", "&", "d", "=", "1", "0", "&",
                     "s", "=", "A", "A">>

\* raw is a decimal numeral: an optional sign, digits, an optional ".5"
IsNumeral(raw) ==
    LET body == IF Len(raw) > 0 /\ raw[1] = "-" THEN Tail(raw) ELSE raw
        int == IF Len(body) > 2 /\ SubSeq(body, Len(body) - 1, Len(body)) = <<".", "5">>
               THEN SubSeq(body, 1, Len(body) - 2)
               ELSE body
    IN  Len(int) > 0 /\ \A i \in 1..Len(int) : IsDigit(int[i])

\* what the claim gives for parameter key: the default when the parameter is
\* absent or its value is no numeral, the floored value brought into
\* [lo, hi] otherwise
DefaultOrClamped(text, key, default, lo, hi) ==
    LET raw == paramsGet(URLSearchParams(text), key)
    IN  IF raw = <<>> THEN default
        ELSE IF ~IsNumeral(raw[1]) THEN default
        ELSE Within(floor(Number(raw[1])), lo, hi)

\* C14: parseShareableStateFromLocation returns r, w, g, d with the defaults
\* 22, 118, 100, 10 for absent or non-numeric parameters and clamps present
\* ones to their bounds; seedIndices is absent from the result exactly when
\* s is absent or fails to decode, and is present, possibly as the empty
\* list, whenever s decodes.
C14_ParseDefaultsAndClamps ==
    codecOp = "parseShareableStateFromLocation" =>
        LET parsed == codecValue[1]
            s == paramsGet(URLSearchParams(codecText), <<"s">>)
        IN  /\ parsed.ruleDecimal = DefaultOrClamped(codecText, <<"r">>, 22, 0, 255)
            /\ parsed.totalItems = DefaultOrClamped(codecText, <<"w">>, 118, 1, 300)
            /\ parsed.generations = DefaultOrClamped(codecText, <<"g">>, 100, 1, 500)
            /\ parsed.delay = DefaultOrClamped(codecText, <<"d">>, 10, 10, 5000)
            /\ parsed.seedIndices = <<>>
                  <=> (s = <<>> \/ base64UrlDecode(s[1]) = <<>>)

\* the payload with the URL-safe substitution undone and the padding
\* restored to a multiple of four characters
Padded(payload) ==
    LET b64 == [i \in 1..Len(payload) |->
                   IF payload[i] = "-" THEN "+"
                   ELSE IF payload[i] = "_" THEN "/"
                   ELSE payload[i]]
    IN  b64 \o [i \in 1..((4 - (Len(b64) % 4)) % 4) |-> "="]

\* text is base64 as the platform's decoder accepts it: white space aside,
\* characters of the alphabet, not 4k + 1 of them, followed by at most two
\* "=" that fill the text up to a multiple of four
ValidBase64(text) ==
    LET t == SelectSeq(text, LAMBDA c : c # " ")
    IN  \E pad \in 0..2 :
            /\ pad <= Len(t)
            /\ \A i \in 1..Len(t) : (i > Len(t) - pad) <=> (t[i] = "=")
            /\ \A i \in 1..(Len(t) - pad) : IsB64Char(t[i])
            /\ pad > 0 => Len(t) % 4 = 0
            /\ (Len(t) - pad) % 4 # 1

\* C15: decodeSeedBitset returns null when the payload, with the URL-safe
\* substitution undone and the padding restored, is not valid base64;
\* otherwise, whatever the number of bytes of the payload, it returns in
\* strictly ascending order exactly the indices idx of [0, clamped
\* totalItems) whose bit 7 - idx mod 8 of byte idx div 8 is set, a byte the
\* payload does not have counting as zero.
C15_DecodeNullOrSetBits ==
    codecOp = "decodeSeedBitset" =>
        IF ~ValidBase64(Padded(codecText))
        THEN codecValue = <<>>
        ELSE /\ Len(codecValue) = 1
             /\ StrictlyAscending(codecValue[1])
             /\ LET bytes == base64UrlDecode(codecText)[1]
                    ByteAt(j) == IF j < Len(bytes) THEN bytes[j + 1] ELSE 0
                IN  {codecValue[1][i] : i \in 1..Len(codecValue[1])}
                      = {idx \in 0..(ClampedOrLowerBound(codecArgs.totalItems, 1, 300) - 1) :
                            BitOf(ByteAt(idx \div 8), 7 - (idx % 8)) = 1}

\* a payload of one byte has been decoded for a width that takes two bytes
C15_Witness ==
    /\ codecOp = "decodeSeedBitset"
    /\ codecArgs.totalItems = Num(9)
    /\ codecText = <<"_", "w">>
    /\ codecValue = <<<<0, 1, 2, 3, 4, 5, 6, 7>>>>

(* --------------------------- Rule22 page ------------------------------ *)
\* C16: the page starts the simulation by itself exactly when one of the
\* parameters r, w, g, d, s was in the search it was loaded with; loaded
\* without any of them, and with no handler called since, the engine is idle
\* at generation 0 and start has not been called
C16_AutoStartIffShareParameter ==
    pageEvent = "load" =>
        /\ didAutoStart => (lastCall = "start" <=> hasConfig(loadedSearch))
        /\ ~hasConfig(loadedSearch) =>
              ~isRunning /\ generation = 0 /\ lastCall = "mount"

\* C17: after a rule or control change, once the pending effects have run,
\* the location's search is buildShareableSearch of the applied
\* configuration; and the step that makes the change leaves the generation
\* pointer at 0
C17_ChangeSyncsUrlAndRewinds ==
    /\ []((changes > 0 /\ ~PagePending) => url = buildShareableSearch(applied))
    /\ [][changes' # changes => generation' = 0]_vars

\* the page loaded without a search, its cells set to 3: the search now
\* names the whole applied configuration
C17_Witness ==
    /\ loadedSearch = <<>>
    /\ changes = 1
    /\ ~PagePending
    /\ generation = 0
    /\ totalItems = 3
    /\ url = <<"?", "r", "=", "2", "2", "&", "w", "=", "3", "&", "g", "=",
               "1", "0", "0", "&", "d", "=", "1", "0", "&", "s", "=", "g", "A">>

(* ---------------------- starred-configuration store ------------------- *)
HoldsStar(list, id) == \E k \in 1..Len(list) : list[k].id = id

NewestFirst(list) ==
    \A k \in 1..(Len(list) - 1) : list[k].createdAt >= list[k + 1].createdAt

\* the persisted list and the list of every view
StarLists == {storage} \cup {items[i] : i \in Instances}

\* two toggles have been made, by different views
TwoViewsToggled ==
    /\ Len(toggled) = 2
    /\ toggled[1].view # toggled[2].view

\* C18: when two views have each starred a different configuration, then
\* however their writes and the storage events interleaved, once nothing
\* is left to run the persisted list and both views' lists hold both
\* configurations, newest first
C18_NoLostStar ==
    (TwoViewsToggled /\ toggled[1].id # toggled[2].id /\ Settled) =>
        \A list \in StarLists :
            /\ HoldsStar(list, toggled[1].id)
            /\ HoldsStar(list, toggled[2].id)
            /\ NewestFirst(list)

\* C19: when two views have each toggled the same configuration, the second
\* after it had reloaded the first one's write, then once nothing is left to
\* run the configuration is in neither the persisted list nor a view's list
C19_SameStarTwiceIsAbsent ==
    (TwoViewsToggled /\ toggled[1].id = toggled[2].id /\ toggled[2].reloaded
         /\ Settled) =>
        \A list \in StarLists : ~HoldsStar(list, toggled[1].id)

\* view A has starred rule 22, view B has reloaded and unstarred it, and
\* only the entry persisted before is left
C19_Witness ==
    /\ TwoViewsToggled
    /\ toggled[1].view = "A"
    /\ toggled[1].id = buildShareableSearch(StarState(22))
    /\ toggled[2].id = toggled[1].id
    /\ toggled[2].reloaded
    /\ Settled
    /\ storage = <<makeStarredFromState(StarState(30), 0)>>
    /\ \A i \in Instances : items[i] = storage

\* a second toggle has been made on a list that did not hold the
\* configuration
ToggledTwice ==
    /\ codecOp = "toggleAgain"
    /\ ~HoldsStar(codecArgs.entries, codecText)

\* C20 as stated: toggling a configuration twice gives back every list that
\* did not hold it, a list of 50 entries included
C20_ToggleTwiceIsIdentity ==
    ToggledTwice => codecValue[1] = codecArgs.entries

\* C20: toggling a configuration twice gives back every list of fewer than
\* 50 entries that did not hold it; of a list of 50 entries it gives back
\* all but the oldest entry when the configuration is stamped no older
\* than that entry
C20_ToggleTwiceBelowCapacity ==
    ToggledTwice =>
        LET entries == codecArgs.entries
            n == Len(entries)
        IN  /\ n < MAX_ITEMS => codecValue[1] = entries
            /\ (n = MAX_ITEMS /\ codecArgs.now >= entries[n].createdAt) =>
                  codecValue[1] = SubSeq(entries, 1, n - 1)

\* rule 22 toggled twice, at time 100, on 50 entries stamped 59 down to 10:
\* the entry stamped 10 is gone
C20_Witness ==
    /\ ToggledTwice
    /\ codecArgs.state = StarState(22)
    /\ codecArgs.now = 100
    /\ codecArgs.entries = [k \in 1..MAX_ITEMS |-> OtherStar(k, 10 + MAX_ITEMS - k)]
    /\ codecValue[1] = [k \in 1..(MAX_ITEMS - 1) |-> OtherStar(k, 10 + MAX_ITEMS - k)]

\* C26: a tick of the interval taken while the engine is Idle changes
\* neither the generation pointer, nor the current row, nor the history
C26_IdleTickChangesNothing ==
    [][(~isRunning /\ Tick) =>
          UNCHANGED <<generation, blocks, blocksHistory, onesHistory>>]_vars

\* the interval the tick effect would set for the current props
CurrentTimer ==
    [rule |-> clampRuleDecimal(ruleDecimal), generations |-> generations,
     boundaryValue |-> boundaryValue, delay |-> delay]

\* C27: there is at most one interval; an interval exists only while the
\* engine is Running and was set for the current rule, generations, boundary
\* value and delay; and every tick applied to the state is a tick of such an
\* interval
C27_OneTimerOnlyWhileRunning ==
    /\ [](Len(interval) <= 1)
    /\ [](interval # <<>> => (isRunning /\ interval[1] = CurrentTimer))
    /\ [][Tick => (isRunning /\ interval[1] = CurrentTimer)]_vars

\* C28: stop() called while the engine is Idle leaves the row, the
\* generation pointer, the history and the running flag as they are, so a
\* second stop() right after a first one changes nothing
C28_StopIsIdempotent ==
    [][(~isRunning /\ Stop) => UNCHANGED state]_vars

\* the engine has been stopped after one generation and its interval has
\* been cleared: any further stop() is called on an Idle engine
C28_Witness ==
    /\ lastCall = "stop"
    /\ ~isRunning
    /\ generation = 1
    /\ Len(blocksHistory) = 2
    /\ interval = <<>>
    /\ ~EffectsPending

(* ---------------- seeding of the generation-0 row -------------------- *)
\* makeInitialValues on JavaScript numbers that takes the entries of
\* seedIndices as they are, without Math.floor
makeInitialValuesOfNumbers_NoFloor(total, ones, bv, seeds) ==
    LET whole == SelectSeq(seeds, LAMBDA x : isFinite(x) /\ x.h % 2 = 0)
        idx == [k \in 1..Len(whole) |-> floor(whole[k])]
        n == IF isFinite(ones) THEN floor(ones)
             ELSE IF ones = Infinity THEN total ELSE 0
    IN  IF Len(seeds) > 0 /\ Len(idx) = 0 THEN {[k \in 1..total |-> bv]}
        ELSE makeInitialValues(total, n, bv, idx)

\* makeInitialValues for initialOnes and seed indices that are any
\* JavaScript numbers.  Math.floor(initialOnes) is taken before the
\* clamping: +Infinity gives totalItems ones; -Infinity gives none, and so
\* does NaN, whose n is NaN and ends the marking loop at once.  Of a
\* non-empty seedIndices the entries that are not finite are skipped and the
\* others floored, and the random branch is not taken even when nothing is
\* left.
makeInitialValuesOfNumbers(total, ones, bv, seeds) ==
    LET finite == SelectSeq(seeds, isFinite)
        idx == [k \in 1..Len(finite) |-> floor(finite[k])]
        n == IF isFinite(ones) THEN floor(ones)
             ELSE IF ones = Infinity THEN total ELSE 0
    IN  IF Len(seeds) > 0 /\ Len(idx) = 0 THEN {[k \in 1..total |-> bv]}
        ELSE makeInitialValues(total, n, bv, idx)

\* randomSeedIndices of the page: every list the shuffle can return, the
\* first n shuffled indices in ascending order
randomSeedIndicesOutcomes(total, count) ==
    LET n == clampInt(count, 0, total)
    IN  {SortedSeq(T) : T \in {U \in SUBSET (0..(total - 1)) : Cardinality(U) = n}}

\* the inputs of the seeding calls
SeedTotals == 0..MaxItems
SeedNumbers ==
    {Num(-1), Half(-1), Num(0), Half(0), Num(1), Half(1), Num(MaxItems - 1),
     Num(MaxItems), NaN, Infinity, NegInfinity}
SeedLists == {<<>>} \cup {<<x>> : x \in SeedNumbers}
                 \cup {<<x, y>> : x \in SeedNumbers, y \in SeedNumbers}

SeedInit == EngineAtRest /\ CodecAtRest /\ PageAtRest /\ StarsAtRest

\* a call makeInitialValues(totalItems, initialOnes, boundaryValue,
\* seedIndices) and one of the rows it can return
MakeInitialValues ==
    /\ codecOp = "none"
    /\ \E t \in SeedTotals, ones \in SeedNumbers, S \in SeedLists :
        \E row \in makeInitialValuesOfNumbers(t, ones, boundaryValue, S) :
            /\ codecOp' = "makeInitialValues"
            /\ codecArgs' = [totalItems |-> t, initialOnes |-> ones, seedIndices |-> S]
            /\ codecText' = <<>>
            /\ codecValue' = row

\* the page's way to random seeds: a list of randomSeedIndices, handed to
\* the engine as seedIndices with initialOnes its length
RandomSeedIndices ==
    /\ codecOp = "none"
    /\ \E t \in SeedTotals \ {0}, count \in SeedNumbers :
        \E S \in randomSeedIndicesOutcomes(t, count) :
            \E row \in makeInitialValues(t, Len(S), boundaryValue, S) :
                /\ codecOp' = "randomSeedIndices"
                /\ codecArgs' = [totalItems |-> t, initialOnes |-> count, seedIndices |-> S]
                /\ codecText' = <<>>
                /\ codecValue' = row

SeedNext ==
    \/ MakeInitialValues /\ UNCHANGED <<engine, page, stars>>
    \/ RandomSeedIndices /\ UNCHANGED <<engine, page, stars>>

SpecSeed == SeedInit /\ [][SeedNext]_vars

\* C29: the row seeded from a non-empty seedIndices has totalItems cells, and
\* cell i is 1 exactly when i is the floor of a listed finite index: entries
\* out of the range 0..totalItems-1 and repeated entries count for nothing,
\* and initialOnes has no influence
C29_ExplicitSeedsMarkFlooredIndices ==
    (codecOp = "makeInitialValues" /\ Len(codecArgs.seedIndices) > 0) =>
        LET S == codecArgs.seedIndices
            Listed(i) == \E k \in 1..Len(S) : S[k] \in {Num(i), Half(i)}
        IN  /\ Len(codecValue) = codecArgs.totalItems
            /\ \A i \in 0..(codecArgs.totalItems - 1) :
                  codecValue[i + 1] = IF Listed(i) THEN 1 ELSE 0

\* seedIndices [1.5, -0.5] on three cells with initialOnes 0: only cell 1 is
\* set
C29_Witness ==
    /\ codecOp = "makeInitialValues"
    /\ codecArgs = [totalItems |-> 3, initialOnes |-> Num(0),
                    seedIndices |-> <<Half(1), Half(-1)>>]
    /\ codecValue = <<0, 1, 0>>

\* the number of ones the claim gives for initialOnes on total cells
SeedCount(total, ones) ==
    IF isFinite(ones) THEN Min(total, Max(0, floor(ones)))
    ELSE IF ones = Infinity THEN total ELSE 0

\* the number of cells of row that hold v
CellsWith(row, v) == Cardinality({k \in 1..Len(row) : row[k] = v})

\* C30: every row seeded without seedIndices has totalItems cells, of which
\* min(totalItems, max(0, floor(initialOnes))) are 1 and all others 0
\* (initialOnes any number but NaN); and the row seeded from a list of the
\* page's randomSeedIndices has as many ones as the clamped count
C30_RandomSeedsCountOnes ==
    /\ (codecOp = "makeInitialValues" /\ codecArgs.seedIndices = <<>>
            /\ codecArgs.initialOnes # NaN) =>
          /\ Len(codecValue) = codecArgs.totalItems
          /\ CellsWith(codecValue, 1) = SeedCount(codecArgs.totalItems, codecArgs.initialOnes)
          /\ CellsWith(codecValue, 0) = Len(codecValue) - CellsWith(codecValue, 1)
    /\ codecOp = "randomSeedIndices" =>
          /\ Len(codecValue) = codecArgs.totalItems
          /\ CellsWith(codecValue, 1) = Len(codecArgs.seedIndices)
          /\ CellsWith(codecValue, 1) =
                 clampInt(codecArgs.initialOnes, 0, codecArgs.totalItems)
          /\ CellsWith(codecValue, 0) = Len(codecValue) - CellsWith(codecValue, 1)

\* initialOnes 1.5 on three cells: one cell is set, here the middle one
C30_Witness ==
    /\ codecOp = "makeInitialValues"
    /\ codecArgs = [totalItems |-> 3, initialOnes |-> Half(1), seedIndices |-> <<>>]
    /\ codecValue = <<0, 1, 0>>

(* -------------------- ruleNo number to binary text --------------------- *)
\* a check for integers that lets every finite number pass
isInteger_AnyFinite(x) == isFinite(x)

\* Number.isInteger
isInteger(x) == isFinite(x) /\ x.h % 2 = 0

\* n.toString(2) of an integer n >= 0
RECURSIVE toString2(_)
toString2(n) ==
    IF n < 2 THEN <<Digits[n + 1]>>
    ELSE toString2(n \div 2) \o <<Digits[(n % 2) + 1]>>

\* text.padStart(length, fill) for a fill of one character
padStart(text, length, fill) ==
    [k \in 1..(Max(length, Len(text)) - Len(text)) |-> fill] \o text

\* to8BitBinary without the padding to eight characters
to8BitBinary_NoPad(decimal) ==
    IF ~isInteger(decimal) \/ decimal.h < 0 \/ decimal.h > 2 * 255
    THEN [threw |-> TRUE, text |-> <<>>]
    ELSE [threw |-> FALSE, text |-> toString2(floor(decimal))]

\* to8BitBinary: the text returned, or the Error thrown
to8BitBinary(decimal) ==
    IF ~isInteger(decimal) \/ decimal.h < 0 \/ decimal.h > 2 * 255
    THEN [threw |-> TRUE, text |-> <<>>]
    ELSE [threw |-> FALSE, text |-> padStart(toString2(floor(decimal)), 8, "0")]

\* clampRuleDecimal of the engine for any JavaScript number
clampRuleDecimalOfNumber(x) ==
    IF ~isFinite(x) THEN 0 ELSE clampRuleDecimal(floor(x))

\* the rule numbers handed in: every rule, and numbers that are no rule
RuleNumbers ==
    {Num(n) : n \in 0..255} \cup
    {Num(-1), Num(-256), Num(256), Num(300), Half(-1), Half(0), Half(22),
     Half(255), NaN, Infinity, NegInfinity}

RuleInit == EngineAtRest /\ CodecAtRest /\ PageAtRest /\ StarsAtRest

\* a call to8BitBinary(decimal)
To8BitBinary ==
    /\ codecOp = "none"
    /\ \E x \in RuleNumbers :
        /\ codecOp' = "to8BitBinary"
        /\ codecArgs' = x
        /\ codecText' = to8BitBinary(x).text
        /\ codecValue' = to8BitBinary(x)

\* ruleMeta of the page: to8BitBinary(applied.ruleDecimal), the configured
\* rule having gone through clampInt(config.ruleDecimal, 0, 255)
RuleMeta ==
    /\ codecOp = "none"
    /\ \E x \in RuleNumbers :
        LET safeRuleDecimal == clampInt(x, 0, 255)
        IN  /\ codecOp' = "ruleMeta"
            /\ codecArgs' = x
            /\ codecText' = to8BitBinary(Num(safeRuleDecimal)).text
            /\ codecValue' = to8BitBinary(Num(safeRuleDecimal))

\* the engine's rule: clampRuleDecimal(ruleDecimal) and its eight outputs,
\* applyElementaryRule for the neighbourhoods 111 down to 000
EngineRule ==
    /\ codecOp = "none"
    /\ \E x \in RuleNumbers :
        LET ruleNo == clampRuleDecimalOfNumber(x)
        IN  /\ codecOp' = "clampRuleDecimal"
            /\ codecArgs' = x
            /\ codecText' = [p \in 1..8 |->
                   Digits[applyElementaryRule(ruleNo, (8 - p) \div 4,
                                              ((8 - p) \div 2) % 2,
                                              (8 - p) % 2) + 1]]
            /\ codecValue' = [threw |-> FALSE, text |-> <<>>, rule |-> ruleNo]

RuleNext ==
    \/ To8BitBinary /\ UNCHANGED <<engine, page, stars>>
    \/ RuleMeta /\ UNCHANGED <<engine, page, stars>>
    \/ EngineRule /\ UNCHANGED <<engine, page, stars>>

SpecRule == RuleInit /\ [][RuleNext]_vars

\* the argument is an integer in 0..255
IsRule(x) == \E n \in 0..255 : x = Num(n)

\* C24: for an integer rule in 0..255 to8BitBinary returns eight characters
\* "0" or "1"; the character at position p (0 the leftmost) is bit 7 - p of
\* the rule and is the engine's output for the neighbourhood of index 7 - p;
\* rule 22 gives "00010110", 255 "11111111" and 0 "00000000"
C24_BinaryTextIsRuleBits ==
    (codecOp = "to8BitBinary" /\ IsRule(codecArgs)) =>
        LET ruleNo == floor(codecArgs)
        IN  /\ ~codecValue.threw
            /\ Len(codecText) = 8
            /\ \A p \in 0..7 :
                /\ codecText[p + 1] = Digits[Bit(ruleNo, 7 - p) + 1]
                /\ codecText[p + 1] =
                       Digits[applyElementaryRule(ruleNo, (7 - p) \div 4,
                                  ((7 - p) \div 2) % 2, (7 - p) % 2) + 1]
            /\ ruleNo = 22 => codecText = <<"0", "0", "0", "1", "0", "1", "1", "0">>
            /\ ruleNo = 255 => codecText = [p \in 1..8 |-> "1"]
            /\ ruleNo = 0 => codecText = [p \in 1..8 |-> "0"]

\* to8BitBinary(22) has returned "00010110"
C24_Witness ==
    /\ codecOp = "to8BitBinary"
    /\ codecArgs = Num(22)
    /\ codecText = <<"0", "0", "0", "1", "0", "1", "1", "0">>

\* C25: to8BitBinary throws, and returns no text, for every number that is
\* not an integer in 0..255; on the page's clamped path it never throws, and
\* the engine's clamped rule is always a rule the function accepts
C25_ThrowsOffRangeOnly ==
    /\ (codecOp = "to8BitBinary" /\ ~IsRule(codecArgs)) =>
          (codecValue.threw /\ codecText = <<>>)
    /\ codecOp = "ruleMeta" => (~codecValue.threw /\ Len(codecText) = 8)
    /\ codecOp = "clampRuleDecimal" =>
          (codecValue.rule \in 0..255 /\ ~to8BitBinary(Num(codecValue.rule)).threw)

\* to8BitBinary(256) has thrown
C25_Witness ==
    /\ codecOp = "to8BitBinary"
    /\ codecArgs = Num(256)
    /\ codecValue.threw

(* ------------------ loading the persisted star list ------------------ *)
\* What localStorage holds under STORAGE_KEY is followed as far as
\* loadStarredConfigs looks at it: kind is "missing" (getItem gives null),
\* "text" (a text JSON.parse rejects) or "json", and then value is what
\* JSON.parse returns: t is "array" with its items, or "object", "number",
\* "string", "null".  An item has its own t, the typeof of its four fields,
\* the number fields that are not finite (1e999 parses to Infinity), and
\* the fields' values where they have the type of a StarredConfig.
JsonOther(t) == [t |-> t, items |-> <<>>]
JsonArray(elems) == [t |-> "array", items |-> elems]
Stored(kind, value) == [kind |-> kind, value |-> value]

StarredTypes ==
    [id |-> "string", search |-> "string", ruleDecimal |-> "number",
     createdAt |-> "number"]

\* a persisted entry of the shape saveStarredConfigs writes
JsonStarred(entry) ==
    [t |-> "object", types |-> StarredTypes, nonFinite |-> {}, entry |-> entry]

\* safeJsonParse: null for a missing value and for a text that does not parse
safeJsonParse(raw) ==
    IF raw.kind = "json" THEN raw.value ELSE JsonOther("null")

\* isStarredConfig
isStarredConfig(v) ==
    /\ v.t = "object"
    /\ v.types.id = "string"
    /\ v.types.search = "string"
    /\ v.types.ruleDecimal = "number"
    /\ "ruleDecimal" \notin v.nonFinite
    /\ v.types.createdAt = "number"
    /\ "createdAt" \notin v.nonFinite

\* loadStarredConfigs from the raw persisted value: not an array gives [],
\* the items that are no StarredConfig are filtered out, the others go
\* through normalising, de-duplication, sort and cut
loadStarredConfigsOfStored(raw) ==
    LET parsed == safeJsonParse(raw)
        valid == SelectSeq(parsed.items, isStarredConfig)
    IN  IF parsed.t # "array" THEN <<>>
        ELSE loadStarredConfigs([k \in 1..Len(valid) |-> valid[k].entry])

\* the number of items of the persisted arrays that are enumerated
MaxStored == 2

\* a well-formed entry with the given search text and time stamp
LoadEntry(search, t) ==
    [id |-> search, search |-> search, ruleDecimal |-> Num(22), createdAt |-> t]

\* items of persisted arrays: well-formed entries (the same id at three
\* times, another id, a search without "?", an empty search) and items that
\* are no StarredConfig
LoadItems ==
    {JsonStarred(LoadEntry(<<"?", "a">>, t)) : t \in {1, 5, 9}} \cup
    {JsonStarred(LoadEntry(<<"?", "b">>, 5)),
     JsonStarred(LoadEntry(<<"a">>, 7)),
     JsonStarred(LoadEntry(<<>>, 8)),
     [JsonStarred(LoadEntry(<<"?", "c">>, 6)) EXCEPT !.types.id = "number"],
     [JsonStarred(LoadEntry(<<"?", "c">>, 6)) EXCEPT !.types.search = "undefined"],
     [JsonStarred(LoadEntry(<<"?", "c">>, 6)) EXCEPT !.types.ruleDecimal = "string"],
     [JsonStarred(LoadEntry(<<"?", "c">>, 6)) EXCEPT !.nonFinite = {"createdAt"}],
     [JsonStarred(LoadEntry(<<"?", "c">>, 6)) EXCEPT !.nonFinite = {"ruleDecimal"}],
     [JsonStarred(LoadEntry(<<"?", "c">>, 6)) EXCEPT !.t = "null"],
     [JsonStarred(LoadEntry(<<"?", "c">>, 6)) EXCEPT !.t = "string"]}

RECURSIVE LoadArrays(_)
LoadArrays(n) ==
    IF n = 0 THEN {<<>>}
    ELSE LoadArrays(n - 1) \cup
         {Append(a, x) : a \in {b \in LoadArrays(n - 1) : Len(b) = n - 1},
                         x \in LoadItems}

\* the persisted values: none, no JSON, JSON that is no array, short arrays
\* of every make, and an array of MAX_ITEMS + 1 entries, oldest first
StoredValues ==
    {Stored("missing", JsonOther("null")), Stored("text", JsonOther("null"))} \cup
    {Stored("json", JsonOther(t)) : t \in {"object", "number", "string", "null"}} \cup
    {Stored("json", JsonArray(a)) : a \in LoadArrays(MaxStored)} \cup
    {Stored("json", JsonArray([k \in 1..(MAX_ITEMS + 1) |->
                                  JsonStarred(OtherStar(k, k))]))}

LoadInit == EngineAtRest /\ CodecAtRest /\ PageAtRest /\ StarsAtRest

\* a call loadStarredConfigs() with raw under STORAGE_KEY
LoadStarredConfigs ==
    /\ codecOp = "none"
    /\ \E raw \in StoredValues :
        /\ codecOp' = "loadStarredConfigs"
        /\ codecArgs' = raw
        /\ codecText' = <<>>
        /\ codecValue' = loadStarredConfigsOfStored(raw)

LoadNext ==
    \/ LoadStarredConfigs /\ UNCHANGED <<engine, page, stars>>

SpecLoad == LoadInit /\ [][LoadNext]_vars

\* the well-formed entries of the persisted array, search and id normalised
ValidStored(raw) ==
    LET valid == SelectSeq(raw.value.items, isStarredConfig)
    IN  {[valid[k].entry EXCEPT !.id = normalizeSearch(valid[k].entry.search),
                                !.search = normalizeSearch(valid[k].entry.search)] :
             k \in 1..Len(valid)}

\* the list has no two entries with one id
UniqueIds(list) ==
    \A i, j \in 1..Len(list) : list[i].id = list[j].id => i = j

\* C21, all but the choice among duplicates: what is loaded is [] for a
\* value that is missing, no JSON or no array, and otherwise a list of at
\* most 50 well-formed entries of the persisted array, one per id, newest
\* first
C21_LoadedListIsClean ==
    codecOp = "loadStarredConfigs" =>
        IF codecArgs.kind # "json" \/ codecArgs.value.t # "array"
        THEN codecValue = <<>>
        ELSE /\ \A k \in 1..Len(codecValue) : codecValue[k] \in ValidStored(codecArgs)
             /\ UniqueIds(codecValue)
             /\ NewestFirst(codecValue)
             /\ Len(codecValue) <= MAX_ITEMS

\* C21: the loaded list is as above, and of several persisted entries with
\* one id the entry loaded is the one with the most recent createdAt
C21_LoadKeepsMostRecent ==
    /\ C21_LoadedListIsClean
    /\ (codecOp = "loadStarredConfigs" /\ codecArgs.kind = "json"
            /\ codecArgs.value.t = "array") =>
          \A k \in 1..Len(codecValue) :
              \A x \in ValidStored(codecArgs) :
                  x.id = codecValue[k].id => x.createdAt <= codecValue[k].createdAt

(* ------------- add, remove and toggle on a shared store -------------- *)
\* Two views as before, now with addCurrent and removeCurrent next to
\* toggleCurrent; time is counted in calls, from 100 on.  The log keeps the
\* last call made.
MaxStoreOps == 2

\* what is persisted when the views are mounted: nothing, or MAX_ITEMS
\* entries of which one half is stamped before the first call (50 down to
\* 26) and one half, as by a clock that was ahead, after the last one
StoreLists ==
    {<<>>, [k \in 1..MAX_ITEMS |->
               OtherStar(k, IF 2 * k <= MAX_ITEMS THEN 1000 - k ELSE 76 - k)]}

StoreInit ==
    /\ EngineAtRest
    /\ CodecAtRest
    /\ PageAtRest
    /\ storage \in StoreLists
    /\ items = [i \in Instances |-> loadStarredConfigs(storage)]
    /\ saveDue = [i \in Instances |-> FALSE]
    /\ storageEvents = [i \in Instances |-> <<>>]
    /\ now = 100
    /\ toggled = <<>>

\* setItems(prev => update(prev)) in view i, called as op for st at time t
StoreCall(i, op, st, t, next) ==
    /\ t < 100 + MaxStoreOps
    /\ items' = [items EXCEPT ![i] = next]
    /\ saveDue' = [saveDue EXCEPT ![i] = TRUE]
    /\ now' = t + 1
    /\ toggled' = <<[view |-> i, op |-> op,
                     id |-> buildShareableSearch(st), at |-> t]>>
    /\ UNCHANGED <<storage, storageEvents>>

addCurrent ==
    \E i \in Instances, st \in StarStates, t \in {now} :
        LET currentSearch == buildShareableSearch(st)
        IN  StoreCall(i, "add", st, t,
                addConfigStar(items[i], [id |-> currentSearch,
                                         search |-> currentSearch,
                                         ruleDecimal |-> st.ruleDecimal,
                                         createdAt |-> t]))

removeCurrent ==
    \E i \in Instances, st \in StarStates, t \in {now} :
        StoreCall(i, "remove", st, t,
                  removeConfigStar(items[i], buildShareableSearch(st)))

toggleCurrentAt ==
    \E i \in Instances, st \in StarStates, t \in {now} :
        StoreCall(i, "toggle", st, t, toggleConfigStar(items[i], st, t))

StoreNext ==
    \/ addCurrent /\ UNCHANGED <<engine, codec, page>>
    \/ removeCurrent /\ UNCHANGED <<engine, codec, page>>
    \/ toggleCurrentAt /\ UNCHANGED <<engine, codec, page>>
    \/ SaveEffect /\ UNCHANGED <<engine, codec, page>>
    \/ onStorage /\ UNCHANGED <<engine, codec, page>>

SpecStore == StoreInit /\ [][StoreNext]_vars

\* the entries of list with the given id
WithId(list, id) == SelectSeq(list, LAMBDA x : x.id = id)

\* C22: after every sequence of add, remove, toggle and reload on a storage
\* event the list of a view has at most 50 entries, no two with one id,
\* newest first; and after an add the list holds no entry with the added id
\* other than the one added
C22_StoreListInvariant ==
    /\ [](\A i \in Instances :
              /\ Len(items[i]) <= MAX_ITEMS
              /\ UniqueIds(items[i])
              /\ NewestFirst(items[i]))
    /\ [][(now' # now /\ toggled'[1].op = "add") =>
            LET call == toggled'[1]
            IN  \A k \in 1..Len(items'[call.view]) :
                    items'[call.view][k].id = call.id =>
                        items'[call.view][k].createdAt = call.at]_vars

\* rule 22, added at time 100 to the 50 persisted entries and saved, has
\* been added again by view A at time 101: the list of A holds 50 entries,
\* one of them for rule 22, stamped 101
C22_Witness ==
    /\ toggled = <<[view |-> "A", op |-> "add",
                    id |-> buildShareableSearch(StarState(22)), at |-> 101]>>
    /\ Len(WithId(storage, toggled[1].id)) = 1
    /\ WithId(storage, toggled[1].id)[1].createdAt = 100
    /\ Len(items["A"]) = MAX_ITEMS
    /\ Len(WithId(items["A"], toggled[1].id)) = 1
    /\ WithId(items["A"], toggled[1].id)[1].createdAt = 101

(* ------------------- views brought back in step ---------------------- *)
\* The two views of SpecStars, both showing rule 22, and other code of the
\* page's origin that writes another key of localStorage: both views get a
\* storage event with that key.  The log keeps the calls, a write of the
\* other code as a call of view "other".
MaxSyncCalls == 3

\* toggleCurrent in view i
toggleShown ==
    /\ Len(toggled) < MaxSyncCalls
    /\ \E i \in Instances :
        /\ items' = [items EXCEPT ![i] = toggleConfigStar(items[i], StarState(22), now)]
        /\ saveDue' = [saveDue EXCEPT ![i] = TRUE]
        /\ toggled' = Append(toggled, [view |-> i,
                                       id |-> buildShareableSearch(StarState(22))])
    /\ now' = now + 1
    /\ UNCHANGED <<storage, storageEvents>>

otherKeyWrite ==
    /\ Len(toggled) < MaxSyncCalls
    /\ storageEvents' = [i \in Instances |-> Append(storageEvents[i], "other.key")]
    /\ toggled' = Append(toggled, [view |-> "other", id |-> <<>>])
    /\ UNCHANGED <<storage, items, saveDue, now>>

SyncNext ==
    \/ toggleShown /\ UNCHANGED <<engine, codec, page>>
    \/ otherKeyWrite /\ UNCHANGED <<engine, codec, page>>
    \/ SaveEffect /\ UNCHANGED <<engine, codec, page>>
    \/ onStorage /\ UNCHANGED <<engine, codec, page>>

\* the step is the save effect, or the storage listener, of view i
SaveEffectOf(i) ==
    SaveEffect /\ saveDue'[i] # saveDue[i] /\ UNCHANGED <<engine, codec, page>>
onStorageOf(i) ==
    /\ storageEvents[i] # <<>>
    /\ onStorage
    /\ storageEvents'[i] = Tail(storageEvents[i])
    /\ UNCHANGED <<engine, codec, page>>

\* In every view React runs a due effect and the browser delivers a queued
\* storage event: neither waits for ever
SpecSync ==
    /\ StarsInit
    /\ [][SyncNext]_vars
    /\ \A i \in Instances : WF_vars(SaveEffectOf(i)) /\ WF_vars(onStorageOf(i))

\* the steps of the storage listener: a view that takes a storage event of
\* STORAGE_KEY replaces its list by what loadStarredConfigs gives for the
\* persisted list, and one that takes an event of another key keeps its
\* list and has no save to make for it
ListenerReloadsOwnKeyOnly ==
    [][\A i \in Instances :
          (storageEvents[i] # <<>> /\ storageEvents'[i] = Tail(storageEvents[i])) =>
              IF Head(storageEvents[i]) = STORAGE_KEY
              THEN items'[i] = loadStarredConfigs(storage)
              ELSE items'[i] = items[i] /\ saveDue'[i] = saveDue[i]]_vars

\* C23: the storage listener reloads on an event of STORAGE_KEY and on no
\* other; and from some moment on no save is due, no event is queued and
\* the persisted list and the lists of all views are the same
C23_ViewsConverge ==
    /\ ListenerReloadsOwnKeyOnly
    /\ <>[](Settled /\ \A i \in Instances : items[i] = storage)

(* ------------------------- history structure -------------------------- *)
\* C35: history structure.  In every reachable state blocksHistory and
\* onesHistory both hold exactly generation + 1 entries, entry k of
\* blocksHistory is labelled generation k, the current row is the row stored
\* for the current generation, and entry k of onesHistory is the number of
\* 1-cells of the row stored for generation k.
C35_HistoryStructure ==
    /\ Len(blocksHistory) = generation + 1
    /\ Len(onesHistory) = generation + 1
    /\ \A k \in 0..generation :
           /\ blocksHistory[k + 1].generation = k
           /\ onesHistory[k + 1] = countOnes(blocksHistory[k + 1].blocks)
    /\ blocks = blocksHistory[generation + 1].blocks

\* a run that reached the last generation: three stored rows, not all alike
C35_Witness ==
    /\ generation = MaxGenerations
    /\ Len(blocksHistory) = MaxGenerations + 1
    /\ onesHistory[1] # onesHistory[generation + 1]
    /\ countOnes(blocks) > 0

(* ------------------------------- rule 0 ------------------------------- *)
\* C33: rule 0.  A tick of a timer that runs with rule 0 turns any row of
\* n >= 1 cells into the row of n zeros, whatever the cells at the two ends
\* of the row (the neighbours across the seam) hold.
C33_RuleZeroClearsRow ==
    [][(Tick /\ interval[1].rule = 0 /\ Len(blocks) >= 1) =>
          /\ Len(blocks') = Len(blocks)
          /\ \A i \in 1..Len(blocks) : blocks'[i] = 0
      ]_vars

\* the first tick under rule 0 has cleared a full-width row whose last cell,
\* the left neighbour of cell 0 across the seam, was 1
C33_Witness ==
    /\ interval # <<>>
    /\ interval[1].rule = 0
    /\ generation = 1
    /\ Len(blocksHistory) = 2
    /\ Len(blocks) = MaxItems
    /\ blocksHistory[1].blocks[MaxItems] = 1
    /\ \A i \in 1..MaxItems : blocks[i] = 0

(* ----------------------------- two engines ---------------------------- *)
\* Two engines given the same configuration, each seeded by its own call of
\* makeInitialValues and ticked by its own timer.  codecArgs is the shared
\* configuration, codecValue[e] the rows engine e has produced so far.
TwinRules == {22, 110}
TwinTotals == 1..MaxItems
TwinOnes == 0..(MaxOnes + 1)
Twins == {1, 2}

TwinInit == EngineAtRest /\ CodecAtRest /\ PageAtRest /\ StarsAtRest

\* start() on both engines: each draws its own generation-0 row
StartTwins ==
    /\ codecOp = "none"
    /\ \E r \in TwinRules, t \in TwinTotals, ones \in TwinOnes, S \in SeedInputs :
        \E rowA \in makeInitialValues(t, ones, boundaryValue, S),
           rowB \in makeInitialValues(t, ones, boundaryValue, S) :
            /\ codecOp' = "start"
            /\ codecArgs' = [ruleDecimal |-> r, totalItems |-> t,
                             initialOnes |-> ones, seedIndices |-> S]
            /\ codecText' = <<>>
            /\ codecValue' = <<(<<rowA>>), (<<rowB>>)>>

\* one tick of engine e: the interval callback's next row, appended
TickTwin ==
    /\ codecOp \in {"start", "tick"}
    /\ \E e \in Twins :
        /\ Len(codecValue[e]) <= MaxGenerations
        /\ LET prev == codecValue[e][Len(codecValue[e])]
               nextBlocks == nextBlocksOf(clampRuleDecimal(codecArgs.ruleDecimal),
                                          boundaryValue, prev)
           IN  codecValue' = [codecValue EXCEPT ![e] = Append(@, nextBlocks)]
    /\ codecOp' = "tick"
    /\ UNCHANGED <<codecArgs, codecText>>

TwinNext ==
    \/ StartTwins /\ UNCHANGED <<engine, page, stars>>
    \/ TickTwin /\ UNCHANGED <<engine, page, stars>>

SpecTwin == TwinInit /\ [][TwinNext]_vars

BitAt(bytes, i) ==
    IF i \div 8 < Len(bytes) THEN (bytes[(i \div 8) + 1] \div (2 ^ (7 - (i % 8)))) % 2 ELSE 0

\* character of the URL-safe base64 alphabet for a 6-bit value
UrlSafeChar(v) == IF v = 62 THEN "-" ELSE IF v = 63 THEN "_" ELSE B64Alphabet[v + 1]

\* base64url without padding, by its definition: the bits of the bytes, most
\* significant first, filled up with zeros and cut into groups of six
Base64UrlText(bytes) ==
    [j \in 1..((8 * Len(bytes) + 5) \div 6) |->
        UrlSafeChar(BitAt(bytes, 6 * (j - 1)) * 32 + BitAt(bytes, 6 * (j - 1) + 1) * 16
                    + BitAt(bytes, 6 * (j - 1) + 2) * 8 + BitAt(bytes, 6 * (j - 1) + 3) * 4
                    + BitAt(bytes, 6 * (j - 1) + 4) * 2 + BitAt(bytes, 6 * (j - 1) + 5))]

\* C31: encodeSeedBitset(totalItems, seedIndices) is the unpadded base64url
\* text of ceil(n / 8) bytes, n = totalItems clamped to [1, 300], in which bit
\* 7 - idx mod 8 of byte floor(idx / 8) is 1 exactly when idx < n is a listed
\* index (the floor of a finite entry); the length of the text is
\* ceil(8 * ceil(n / 8) / 6), the same for every seed list.
C31_SeedBitsetText ==
    codecOp = "encodeSeedBitset" =>
        LET t == codecArgs.totalItems
            S == codecArgs.seedIndices
            n == IF isFinite(t) THEN Within(floor(t), 1, 300) ELSE 1
            Listed(idx) == \E j \in 1..Len(S) : isFinite(S[j]) /\ floor(S[j]) = idx
            SeedByte(b) ==
                LET V(p) == IF 8 * b + p < n /\ Listed(8 * b + p) THEN 2 ^ (7 - p) ELSE 0
                IN  V(0) + V(1) + V(2) + V(3) + V(4) + V(5) + V(6) + V(7)
            bytes == [b \in 1..((n + 7) \div 8) |-> SeedByte(b - 1)]
        IN  /\ codecText = Base64UrlText(bytes)
            /\ Len(codecText) = (8 * ((n + 7) \div 8) + 5) \div 6

\* nine cells, so two bytes, with cells 0..5 seeded: the first six bits are
\* set, the text has three characters and starts with a URL-safe one
C31_Witness ==
    /\ codecOp = "encodeSeedBitset"
    /\ codecArgs.totalItems = Num(9)
    /\ Len(codecArgs.seedIndices) = 6
    /\ codecText = <<"_", "A", "A">>

(* ------------------------------ add ----------------------------------- *)
\* C38 as stated: whatever the list and the timestamp of the entry, the list
\* returned by add holds the entry
C38_AddedEntryIsStarred ==
    codecOp = "addConfigStar" => isConfigStarred(codecValue[1], codecText)

\* entries of the list with another id and a timestamp above t
NewerOthers(list, id, t) ==
    Cardinality({k \in 1..Len(list) : list[k].id # id /\ list[k].createdAt > t})

\* C38: the list returned by add holds the entry, with the timestamp given,
\* unless the list holds 50 entries of other ids that are all newer than the
\* entry; then the entry is the one cut off and the list is returned as it
\* was.
C38_AddedEntryIsStarredUnlessOldest ==
    codecOp = "addConfigStar" =>
        LET entries == codecArgs.entries
            e == makeStarredFromState(codecArgs.state, codecArgs.now)
            result == codecValue[1]
        IN  IF NewerOthers(entries, e.id, e.createdAt) < MAX_ITEMS
            THEN /\ isConfigStarred(result, e.search)
                 /\ \E k \in 1..Len(result) : result[k] = e
            ELSE /\ ~isConfigStarred(result, e.search)
                 /\ result = entries

\* rule 22 added with timestamp 10 to 50 entries all stamped 10: it is put
\* first and the last of the 50 is cut off
C38_Witness ==
    /\ codecOp = "addConfigStar"
    /\ codecArgs.state = StarState(22)
    /\ codecArgs.now = 10
    /\ codecArgs.entries = [k \in 1..MAX_ITEMS |-> OtherStar(k, 10)]
    /\ Len(codecValue[1]) = MAX_ITEMS
    /\ codecValue[1][1] = makeStarredFromState(StarState(22), 10)

(* ------------------------ identity of configurations ------------------ *)
\* Two configurations are starred.  The first is any configuration of
\* PairConfigs, the second differs from it in at most one field, which
\* includes values that clamp to the same number and seed lists that name
\* the same cells in another way.
PairRules == {Num(22), Num(255), Num(999)}
PairTotals == {Num(9), Num(300), Num(301)}
PairGenerations == {Num(100), Num(500), Num(99999)}
PairDelays == {Num(1), Num(10), Num(20)}
PairSeeds == UNION {[1..n -> {Num(8), Num(299)}] : n \in 0..MaxSeedLen}
PairConfigs ==
    [ruleDecimal : PairRules, totalItems : PairTotals, generations : PairGenerations,
     delay : PairDelays, seedIndices : PairSeeds]

VariantsOf(c) ==
    {[c EXCEPT !.ruleDecimal = r] : r \in PairRules}
    \cup {[c EXCEPT !.totalItems = t] : t \in PairTotals}
    \cup {[c EXCEPT !.generations = g] : g \in PairGenerations}
    \cup {[c EXCEPT !.delay = d] : d \in PairDelays}
    \cup {[c EXCEPT !.seedIndices = S] : S \in PairSeeds}

PairInit == EngineAtRest /\ CodecAtRest /\ PageAtRest /\ StarsAtRest

\* makeStarredFromState of two configurations
StarPair ==
    /\ codecOp = "none"
    /\ \E c1 \in PairConfigs :
        \E c2 \in VariantsOf(c1) :
            /\ codecOp' = "makeStarredFromState"
            /\ codecArgs' = <<c1, c2>>
            /\ codecText' = <<>>
            /\ codecValue' = <<makeStarredFromState(c1, 1), makeStarredFromState(c2, 2)>>

\* the entry of a starred pair looked up again by the search of its state
LookUpPair ==
    /\ codecOp = "makeStarredFromState"
    /\ codecOp' = "isConfigStarred"
    /\ codecText' = buildShareableSearch(codecArgs[2])
    /\ UNCHANGED <<codecArgs, codecValue>>

PairNext ==
    \/ StarPair /\ UNCHANGED <<engine, page, stars>>
    \/ LookUpPair /\ UNCHANGED <<engine, page, stars>>

SpecPair == PairInit /\ [][PairNext]_vars

\* the fields of a configuration brought into their bounds, and the cells of
\* the clamped width that its seed list names
ClampedFields(c) ==
    <<ClampedOrLowerBound(c.ruleDecimal, 0, 255), ClampedOrLowerBound(c.totalItems, 1, 300),
      ClampedOrLowerBound(c.generations, 1, 500), ClampedOrLowerBound(c.delay, 10, 5000)>>
InRangeSeeds(c) ==
    {n \in 0..(ClampedOrLowerBound(c.totalItems, 1, 300) - 1) :
        \E j \in 1..Len(c.seedIndices) :
            isFinite(c.seedIndices[j]) /\ floor(c.seedIndices[j]) = n}

\* C39: two configurations have the same search string, and so the same
\* starred id, exactly when their clamped rule, width, generations and delay
\* are equal and their seed lists name the same set of cells of that width,
\* in whatever order and with whatever repeated or out-of-range entries.
C39_EncodingIdentifiesConfiguration ==
    codecOp \in {"makeStarredFromState", "isConfigStarred"} =>
        LET c1 == codecArgs[1]
            c2 == codecArgs[2]
            same == /\ ClampedFields(c1) = ClampedFields(c2)
                    /\ InRangeSeeds(c1) = InRangeSeeds(c2)
        IN  /\ same <=> codecValue[1].search = codecValue[2].search
            /\ same <=> codecValue[1].id = codecValue[2].id
            /\ codecOp = "isConfigStarred" =>
                   (same <=> isConfigStarred(<<codecValue[1]>>, codecText))

\* nine cells with cell 8 seeded, once listed after an index beyond the
\* width and once alone: one id
C39_Witness ==
    /\ codecOp = "isConfigStarred"
    /\ codecArgs[1].totalItems = Num(9)
    /\ codecArgs[1].ruleDecimal = Num(999)
    /\ codecArgs[1].seedIndices = <<Num(299), Num(8)>>
    /\ codecArgs[2].seedIndices = <<Num(8)>>
    /\ codecValue[1].id = codecValue[2].id
    /\ isConfigStarred(<<codecValue[1]>>, codecText)

(* ------------------------ applied configuration ----------------------- *)
\* The configuration behind the page, [ruleDecimal, totalItems, initialOnes,
\* seedIndices, generations, delay], as the handlers write it, and the
\* applied configuration computed from it.  What the user types arrives as
\* Number(e.target.value): any number, NaN for a text that is no number.

\* the number of rule and control changes made after the load
MaxPatches == 2

\* the useState initialiser of draft, copied into config: every configuration
\* it can give for the search the page is loaded with
initialConfigs(search) ==
    LET fromUrl == parseShareableStateFromLocation(search)
        safeTotal == clampInt(Num(fromUrl.totalItems), 1, 300)
        seedLists == IF fromUrl.seedIndices # <<>> /\ Len(fromUrl.seedIndices[1]) > 0
                     THEN {normalizeSeedIndices(safeTotal, fromUrl.seedIndices[1])}
                     ELSE randomSeedIndices(safeTotal, defaultSeedCount(safeTotal))
    IN  {[ruleDecimal |-> clampInt(Num(fromUrl.ruleDecimal), 0, 255),
          totalItems |-> safeTotal,
          initialOnes |-> Len(S),
          seedIndices |-> S,
          generations |-> clampInt(Num(fromUrl.generations), 1, 500),
          delay |-> clampInt(Num(fromUrl.delay), 10, 5000)] : S \in seedLists}

\* applyControlPatch(prev, patch); patch is a function on the fields it holds,
\* its numbers as the input gave them, its seed list one of randomSeedIndices
applyControlPatch(prev, patch) ==
    LET Merged(f) == IF f \in DOMAIN patch THEN patch[f] ELSE Num(prev[f])
        safeTotal == clampInt(Merged("totalItems"), 1, 300)
        mergedSeeds == IF "seedIndices" \in DOMAIN patch THEN patch["seedIndices"]
                       ELSE prev.seedIndices
        safeSeed == normalizeSeedIndices(safeTotal, mergedSeeds)
    IN  [ruleDecimal |-> prev.ruleDecimal,
         totalItems |-> safeTotal,
         generations |-> clampInt(Merged("generations"), 1, 500),
         delay |-> clampInt(Merged("delay"), 10, 5000),
         seedIndices |-> safeSeed,
         initialOnes |-> clampInt(Num(Len(safeSeed)), 0, safeTotal)]

\* nextPatch of applyControlsPatch: a patch of totalItems alone is given
\* freshly drawn seeds for the clamped width
nextPatches(patch) ==
    IF "totalItems" \in DOMAIN patch /\ "seedIndices" \notin DOMAIN patch
       /\ "initialOnes" \notin DOMAIN patch
    THEN LET safeTotal == clampInt(patch["totalItems"], 1, 300)
             count == defaultSeedCount(safeTotal)
         IN  {[f \in {"totalItems", "initialOnes", "seedIndices"} |->
                  IF f = "totalItems" THEN Num(safeTotal)
                  ELSE IF f = "initialOnes" THEN Num(count) ELSE S] :
              S \in randomSeedIndices(safeTotal, count)}
    ELSE {patch}

\* the patches of the seed count input (count typed) and of the randomize
\* button (count = draft.initialOnes)
seedPatches(draft, count) ==
    LET safeTotal == clampInt(Num(draft.totalItems), 1, 300)
        nextCount == clampInt(count, 0, safeTotal)
    IN  {[f \in {"totalItems", "initialOnes", "seedIndices"} |->
             IF f = "totalItems" THEN Num(safeTotal)
             ELSE IF f = "initialOnes" THEN Num(Len(S)) ELSE S] :
         S \in randomSeedIndices(safeTotal, nextCount)}

\* the useMemo of applied
appliedOf(config) ==
    LET safeTotal == clampInt(Num(config.totalItems), 1, 300)
        safeSeed == normalizeSeedIndices(safeTotal, config.seedIndices)
    IN  [ruleDecimal |-> clampInt(Num(config.ruleDecimal), 0, 255),
         totalItems |-> safeTotal,
         initialOnes |-> clampInt(Num(config.initialOnes), 0, safeTotal),
         seedIndices |-> safeSeed,
         generations |-> clampInt(Num(config.generations), 1, 500),
         delay |-> clampInt(Num(config.delay), 10, 5000)]

\* what is typed into a control: no number, a negative one, zero, a fraction,
\* a value inside every range, one above every range
ControlNumbers == {NaN, Num(-5), Num(0), Half(7), Num(12), Num(100000)}

\* the searches the page is loaded with: none, values out of range with a
\* seed beyond the width, and values that are no numbers
AppliedSearches ==
    {<<>>,
     <<"?", "r", "=", "9", "9", "9", "&", "w", "=", "0", "&", "g", "=", "0", "&",
       "d", "=", "1", "&", "s", "=", "_", "w">>,
     <<"?", "r", "=", "x", "&", "w", "=", "9", "&", "g", "=", "-", "1", "&",
       "d", "=", "9", "9", "9", "9", "9", "&", "s", "=", "g", "I", "A">>}

AppliedInit == EngineAtRest /\ CodecAtRest /\ PageAtRest /\ StarsAtRest

\* the page is mounted: both useState initialisers have run
LoadConfig ==
    /\ codecOp = "none"
    /\ \E search \in AppliedSearches :
        \E config \in initialConfigs(search) :
            /\ codecOp' = "load"
            /\ codecArgs' = 0
            /\ codecText' = search
            /\ codecValue' = config

\* onControlsPatch of the cells, generations and delay inputs, of the seed
\* count input and of the randomize button: setConfig(applyControlPatch)
PatchConfig ==
    /\ codecOp # "none"
    /\ codecArgs < MaxPatches
    /\ \E patch \in
           UNION {nextPatches([f \in {field} |-> v]) :
                     field \in {"totalItems", "generations", "delay"}, v \in ControlNumbers}
           \cup UNION {seedPatches(codecValue, count) : count \in ControlNumbers}
           \cup seedPatches(codecValue, Num(codecValue.initialOnes)) :
        codecValue' = applyControlPatch(codecValue, patch)
    /\ codecOp' = "patch"
    /\ codecArgs' = codecArgs + 1
    /\ UNCHANGED codecText

\* onChangeRule(Number(e.target.value)) and onRandomRule:
\* setConfig((c) => ({ ...c, ruleDecimal: nextRule }))
RuleConfig ==
    /\ codecOp # "none"
    /\ codecArgs < MaxPatches
    /\ \E nextRule \in {clampInt(v, 0, 255) : v \in ControlNumbers} \cup {0, 255} :
        codecValue' = [codecValue EXCEPT !.ruleDecimal = nextRule]
    /\ codecOp' = "rule"
    /\ codecArgs' = codecArgs + 1
    /\ UNCHANGED codecText

AppliedNext ==
    \/ LoadConfig /\ UNCHANGED <<engine, page, stars>>
    \/ PatchConfig /\ UNCHANGED <<engine, page, stars>>
    \/ RuleConfig /\ UNCHANGED <<engine, page, stars>>

SpecApplied == AppliedInit /\ [][AppliedNext]_vars

\* C32: after the load and after every control patch and rule change, the
\* applied configuration has ruleDecimal in [0,255], totalItems in [1,300],
\* generations in [1,500], delay in [10,5000], initialOnes in
\* [0,totalItems], and seedIndices strictly ascending within [0,totalItems).
C32_AppliedWithinBounds ==
    codecOp \in {"load", "patch", "rule"} =>
        LET a == appliedOf(codecValue)
        IN  /\ a.ruleDecimal \in 0..255
            /\ a.totalItems \in 1..300
            /\ a.generations \in 1..500
            /\ a.delay \in 10..5000
            /\ a.initialOnes \in 0..a.totalItems
            /\ StrictlyAscending(a.seedIndices)
            /\ \A k \in 1..Len(a.seedIndices) :
                   a.seedIndices[k] \in 0..(a.totalItems - 1)

\* loaded with values out of range, then the width typed as text that is no
\* number and a delay far above the range: one cell, delay 5000
C32_Witness ==
    /\ codecOp = "patch"
    /\ codecArgs = MaxPatches
    /\ Len(codecText) > 0
    /\ appliedOf(codecValue).ruleDecimal = 255
    /\ appliedOf(codecValue).totalItems = 1
    /\ appliedOf(codecValue).delay = 5000
    /\ appliedOf(codecValue).seedIndices = <<>>

(* ------------------------- deferred re-seed --------------------------- *)
\* C36: when the start() of a pending auto-start runs, no deferred re-seed
\* is outstanding, and once the auto-start of the latest change has run no
\* deferred re-seed is pending or runs unless the user acts again: the
\* re-seed of a change takes effect before the auto-start of that change
\* and never sets the engine it started Idle.
C36_ReseedBeforeAutoStart ==
    /\ [][StartTimeout => reseedTimer = <<>>]_vars
    /\ [][ReseedTimeout => pageEvent # "autostart"]_vars
    /\ [](pageEvent = "autostart" => reseedTimer = <<>>)

\* loaded with the default width, the cells set to 3: the re-seed for the
\* new width has run, then the auto-start, and the engine runs 3 cells
C36_Witness ==
    /\ loadedSearch = <<>>
    /\ changes = 1
    /\ totalItems = 3
    /\ prevConfigKey = <<ConfigKey(totalItems, initialOnes, boundaryValue, seedIndices)>>
    /\ pageEvent = "autostart"
    /\ lastCall = "start"
    /\ isRunning
    /\ generation = 0
    /\ Len(blocks) = 3
    /\ reseedTimer = <<>>
    /\ startTimer = <<>>

(* --------------------------- autorun on change ------------------------ *)
\* The page, loaded with a configuration of three cells, with its
\* scheduling: the passive effects of a committed render are run, and a
\* timeout that stays set runs.  Nothing is assumed about what the user
\* does, nor about the interval.  PageFlushEffects is enabled exactly when
\* PagePending holds and leaves nothing pending, so that its weak fairness
\* is the recurrence of ~PagePending, which is the form given here.
AutoInit ==
    /\ PageInit
    /\ loadedSearch = <<"?", "w", "=", "3", "&", "g", "=", "2", "&", "s", "=", "g", "A">>

SpecAuto ==
    /\ AutoInit
    /\ [][PageNext]_vars
    /\ []<>(~PagePending)
    /\ WF_vars(ReseedTimeout /\ UNCHANGED <<codec, page, stars>>)
    /\ WF_vars(StartTimeout /\ UNCHANGED <<codec, stars>>)

\* a change has been made with "autorun on change" enabled, and neither
\* start(), stop() nor reset() has been called since
ChangedWithAutorun ==
    /\ lastCall = "props"
    /\ pendingAutoStart
    /\ autorunOnChange

\* the engine runs from generation 0 with the applied configuration
RunningFromSeed ==
    /\ isRunning
    /\ generation = 0
    /\ lastCall = "start"
    /\ IsSeedRowOf(blocks, totalItems, initialOnes, seedIndices)

\* C37: with "autorun on change" enabled, every rule or control change, a
\* change that leaves the applied configuration as it was included, is
\* followed by the engine Running from generation 0 with the applied
\* configuration, unless the user starts or stops the engine or switches
\* the option off first.
C37_ChangeLeadsToRun ==
    ChangedWithAutorun ~> (RunningFromSeed \/ lastCall # "props" \/ ~autorunOnChange)

====
